---- MODULE Spec2Model ----
(***************************************************************************)
(* A model of p5.Geometry (src/webgl/p5.Geometry.js): the mesh buffers of  *)
(* a Geometry, grid face computation, vertex normals, edge extraction, the *)
(* stroke tessellation pass _edgesToVertices(), normalize(), the           *)
(* renderer's beginGeometry()/endGeometry() pair and its polygon           *)
(* tessellator, _triangulate() with the callbacks of _initTessy().         *)
(*                                                                         *)
(* Numbers.  A JavaScript number is modelled exactly as a record           *)
(* [n |-> numerator, d |-> denominator]: a reduced fraction with d > 0,    *)
(* or one of the IEEE specials  1/0 (+Infinity), -1/0 (-Infinity) and 0/0  *)
(* (NaN).  A component of a normalised vector is in general irrational;    *)
(* it is modelled as [c |-> c, n |-> n], standing for c / sqrt(n).         *)
(***************************************************************************)
EXTENDS Integers, Sequences, FiniteSets, TLC

----------------------------------------------------------------------------
(* Bounds of the model. *)

\* longest edge list handed to _edgesToVertices()
MaxEdges == 3
\* _edgesToVertices() calls explored on one Geometry
MaxPasses == 2
\* longest edge list of the specification of longer lines
MaxLongEdges == 4
\* longest edge list of the specification of lines over four vertices
MaxWideEdges == 5
\* largest detailX / detailY
MaxDetail == 2
\* calls explored on one renderer
MaxCalls == 6
\* vertices per Geometry in the normalize specification
MaxNormVerts == 2
\* contours handed to _triangulate(), and vertices of a contour without area
MaxContours == 2
MaxContourVerts == 2
\* faces of a Geometry in the normals specification
MaxFaces == 2

(* Program constants. *)

\* 1 / 1e-8, the join threshold of _edgesToVertices()
JoinEpsInv == 100000000
\* the longest bounding-box dimension normalize() produces
NormalizedSize == 200

----------------------------------------------------------------------------
(* Exact arithmetic on JavaScript numbers. *)

Abs(k) == IF k < 0 THEN -k ELSE k

RECURSIVE Gcd(_, _)
Gcd(a, b) == IF b = 0 THEN a ELSE Gcd(b, a % b)

Sign(k) == IF k > 0 THEN 1 ELSE IF k < 0 THEN -1 ELSE 0

NaN == [n |-> 0, d |-> 0]

\* the number n/d, reduced; d = 0 gives an IEEE special
Frac(n, d) ==
  IF d = 0 THEN [n |-> Sign(n), d |-> 0]
  ELSE LET g == Gcd(Abs(n), Abs(d))
           s == Sign(d)
       IN  [n |-> s * (n \div g), d |-> s * (d \div g)]

Num(k) == [n |-> k, d |-> 1]

IsNaN(a) == a.n = 0 /\ a.d = 0
IsFinite(a) == a.d > 0

\* a < b on numbers; false when either is NaN
NumLess(a, b) ==
  IF IsNaN(a) \/ IsNaN(b) THEN FALSE
  ELSE IF a.d = 0 /\ b.d = 0 THEN a.n < b.n
  ELSE IF a.d = 0 THEN a.n < 0
  ELSE IF b.d = 0 THEN b.n > 0
  ELSE a.n * b.d < b.n * a.d

NumAdd(a, b) ==
  IF IsNaN(a) \/ IsNaN(b) THEN NaN
  ELSE IF a.d = 0 /\ b.d = 0 THEN (IF a.n = b.n THEN a ELSE NaN)
  ELSE IF a.d = 0 THEN a
  ELSE IF b.d = 0 THEN b
  ELSE Frac(a.n * b.d + b.n * a.d, a.d * b.d)

NumNeg(a) == [n |-> -a.n, d |-> a.d]

NumSub(a, b) == NumAdd(a, NumNeg(b))

\* 0 * Infinity is NaN
NumMul(a, b) ==
  IF IsNaN(a) \/ IsNaN(b) THEN NaN
  ELSE IF a.d = 0 \/ b.d = 0
       THEN (IF a.n = 0 \/ b.n = 0 THEN NaN
             ELSE [n |-> Sign(a.n) * Sign(b.n), d |-> 0])
  ELSE Frac(a.n * b.n, a.d * b.d)

\* x / 0 is +-Infinity, 0 / 0 is NaN
NumDiv(a, b) ==
  IF IsNaN(a) \/ IsNaN(b) THEN NaN
  ELSE IF a.d = 0 /\ b.d = 0 THEN NaN
  ELSE IF b.d = 0 THEN Num(0)
  ELSE IF b.n = 0 THEN [n |-> Sign(a.n), d |-> 0]
  ELSE IF a.d = 0 THEN [n |-> a.n * Sign(b.n), d |-> 0]
  ELSE Frac(a.n * b.d, a.d * b.n)

\* Math.max / Math.min: NaN if either argument is NaN
MathMax(a, b) ==
  IF IsNaN(a) \/ IsNaN(b) THEN NaN ELSE IF NumLess(a, b) THEN b ELSE a

MathMin(a, b) ==
  IF IsNaN(a) \/ IsNaN(b) THEN NaN ELSE IF NumLess(b, a) THEN b ELSE a

----------------------------------------------------------------------------
(* p5.Vector, as the Geometry uses it. *)

Vec(x, y, z) == [x |-> x, y |-> y, z |-> z]

\* the vector with integer coordinates x, y, z
Pt(x, y, z) == Vec(Num(x), Num(y), Num(z))

VecSub(a, b) == Vec(NumSub(a.x, b.x), NumSub(a.y, b.y), NumSub(a.z, b.z))

VecMult(a, k) == Vec(NumMul(a.x, k), NumMul(a.y, k), NumMul(a.z, k))

\* p5.Vector.lerp(a, b, amt) = a + (b - a) * amt
VecLerp(a, b, amt) ==
  Vec(NumAdd(a.x, NumMul(NumSub(b.x, a.x), amt)),
      NumAdd(a.y, NumMul(NumSub(b.y, a.y), amt)),
      NumAdd(a.z, NumMul(NumSub(b.z, a.z), amt)))

\* point.array()
VecArray(a) == <<a.x, a.y, a.z>>

(* Directions: the vector (x, y, z) / sqrt(n) with x, y, z integers that   *)
(* have no common factor.  The zero vector is (0, 0, 0) / sqrt(1).         *)
Dir(x, y, z, n) == [x |-> x, y |-> y, z |-> z, n |-> n]

ZeroDir == Dir(0, 0, 0, 1)

\* v.normalize() for a finite vector v: v / |v|, and v itself when |v| = 0
VecNormalize(v) ==
  LET l  == (v.x.d * v.y.d * v.z.d)
      ix == v.x.n * (l \div v.x.d)
      iy == v.y.n * (l \div v.y.d)
      iz == v.z.n * (l \div v.z.d)
      g  == Gcd(Gcd(Abs(ix), Abs(iy)), Abs(iz))
  IN  IF g = 0 THEN ZeroDir
      ELSE LET px == ix \div g
               py == iy \div g
               pz == iz \div g
           IN  Dir(px, py, pz, px * px + py * py + pz * pz)

\* dir.magSq() > 0
MagSqPositive(dir) == dir.x * dir.x + dir.y * dir.y + dir.z * dir.z > 0

\* dir.copy().mult(-1)
DirNegate(dir) == Dir(-dir.x, -dir.y, -dir.z, dir.n)

\* dir.array(): the three components c / sqrt(n)
DirArray(dir) ==
  << [c |-> dir.x, n |-> dir.n], [c |-> dir.y, n |-> dir.n],
     [c |-> dir.z, n |-> dir.n] >>

\* the test without its collinearity threshold
JoinAlways(a, b) == TRUE

(* a.dot(b) < 1 - 1e-8 for directions a and b.  With p the dot product of  *)
(* the integer vectors and N = a.n * b.n, a.dot(b) = p / sqrt(N).  For     *)
(* p <= 0 the test holds; for p > 0 it is p^2 * E^2 < (E - 1)^2 * N with   *)
(* E = 1e8, that is (N - p^2) * E^2 > (2E - 1) * N, which for N < E is     *)
(* N - p^2 >= ceil(2N / E).  The rounding error of the floating-point dot  *)
(* product (about 1e-16) is far below both 1e-8 and, for the vectors of    *)
(* this model, the distance of a.dot(b) from the threshold.                *)
DotBelowJoinThreshold(a, b) ==
  LET p == a.x * b.x + a.y * b.y + a.z * b.z
      N == a.n * b.n
  IN  p <= 0 \/ N - p * p >= (2 * N + JoinEpsInv - 1) \div JoinEpsInv

----------------------------------------------------------------------------
(* State. *)

VARIABLES
  \* the Geometry's arrays (constructor, lines 21-66)
  vertices, vertexNormals, faces, uvs, edges, vertexColors,
  vertexStrokeColors,
  \* the stroke buffers, flat: 3, 3, 3, 1 and 4 entries per stroke vertex
  lineVertices, lineTangentsIn, lineTangentsOut, lineSides, lineVertexColors,
  detailX, detailY,
  \* the identity of the array object each field holds
  arrayId,
  \* the locals of a running _edgesToVertices(): loop position, i, the
  \* potentialCaps map (in insertion order), the connected set, lastValidDir
  pc, i, potentialCaps, connected, lastValidDir,
  \* the renderer's geometry builder in flight (<<>> is undefined)
  geometryBuilder,
  \* the last call that returned or threw, the _edgesToVertices() or
  \* computeNormals() calls made so far on the Geometry, and the log of the
  \* calls made on the renderer
  lastCall, passes, callLog,
  \* the warnings logged through console.warn so far
  warnings,
  \* the renderer's tessellator: the contours handed to _triangulate(), the
  \* normal hinted to the tessellator, the triangle vertices returned
  \* (<< >> before the first call), and the arguments and the result of the
  \* last combine event
  contours, tessNormal, triangleVerts, combineArgs, combined

geomVars == << vertices, vertexNormals, faces, uvs, edges, vertexColors,
               vertexStrokeColors, detailX, detailY, arrayId >>
lineVars == << lineVertices, lineTangentsIn, lineTangentsOut, lineSides,
               lineVertexColors >>
passVars == << pc, i, potentialCaps, connected, lastValidDir >>
tessVars == << contours, tessNormal, triangleVerts, combineArgs, combined >>
vars == << geomVars, lineVars, passVars, geometryBuilder, lastCall, passes,
          callLog, warnings, tessVars >>

ArrayNames ==
  { "vertices", "lineVertices", "lineTangentsIn", "lineTangentsOut",
    "lineSides", "vertexNormals", "faces", "uvs", "edges", "vertexColors",
    "vertexStrokeColors", "lineVertexColors" }

\* the constructor gives every field an array of its own
ConstructedIds ==
  [a \in ArrayNames |->
     CASE a = "vertices" -> 1 [] a = "lineVertices" -> 2
       [] a = "lineTangentsIn" -> 3 [] a = "lineTangentsOut" -> 4
       [] a = "lineSides" -> 5 [] a = "vertexNormals" -> 6
       [] a = "faces" -> 7 [] a = "uvs" -> 8 [] a = "edges" -> 9
       [] a = "vertexColors" -> 10 [] a = "vertexStrokeColors" -> 11
       [] a = "lineVertexColors" -> 12]

Returned(op) == [op |-> op, threw |-> FALSE]
Threw(op) == [op |-> op, threw |-> TRUE]

----------------------------------------------------------------------------
(* Sequence helpers. *)

RECURSIVE Repeat(_, _)
\* seq pushed k times
Repeat(seq, k) == IF k = 0 THEN <<>> ELSE seq \o Repeat(seq, k - 1)

\* array.slice(from, to), indices from 0, clipped to the array
Slice(seq, from, to) ==
  LET lo == IF from < Len(seq) THEN from ELSE Len(seq)
      hi == IF to < Len(seq) THEN to ELSE Len(seq)
  IN  IF hi <= lo THEN <<>> ELSE SubSeq(seq, lo + 1, hi)

\* this.vertices[k], k from 0
Vertex(k) == vertices[k + 1]

----------------------------------------------------------------------------
(* The potentialCaps Map: entries [key, point, dir, color] in insertion    *)
(* order, at most one per key.                                             *)

CapsHas(caps, k) == \E j \in 1..Len(caps) : caps[j].key = k

CapsGet(caps, k) == caps[CHOOSE j \in 1..Len(caps) : caps[j].key = k]

CapsDelete(caps, k) == SelectSeq(caps, LAMBDA e : e.key # k)

\* Map.set: a new key is appended, an existing key keeps its place
CapsSet(caps, k, point, dir, color) ==
  LET e == [key |-> k, point |-> point, dir |-> dir, color |-> color]
  IN  IF CapsHas(caps, k)
      THEN [j \in 1..Len(caps) |-> IF caps[j].key = k THEN e ELSE caps[j]]
      ELSE Append(caps, e)

----------------------------------------------------------------------------
(* The emitters.  s is the state of a running pass: the five buffers lv,   *)
(* ti, to, ls, lc and the locals caps, conn, lvd.                          *)

SegmentSides == << 1, 1, -1, 1, -1, -1 >>
CapSides == << -1, 2, -2, 1, 2, -1 >>
JoinSides == << -1, -3, -2, -1, 0, -3 >> \o << 3, 1, 2, 3, 0, 1 >>

\* _addSegment that runs from end to begin
AddSegmentReversed(s, begin, end, fromColor, toColor, dir) ==
  LET a == VecArray(begin)
      b == VecArray(end)
      dirArr == DirArray(dir)
  IN  [s EXCEPT
         !.ls = @ \o SegmentSides,
         !.ti = @ \o Repeat(dirArr, 6),
         !.to = @ \o Repeat(dirArr, 6),
         !.lv = @ \o b \o a \o b \o a \o a \o b,
         !.lc = @ \o toColor \o fromColor \o toColor \o fromColor
                  \o fromColor \o toColor]

\* _addSegment(begin, end, fromColor, toColor, dir)
AddSegment(s, begin, end, fromColor, toColor, dir) ==
  LET a == VecArray(begin)
      b == VecArray(end)
      dirArr == DirArray(dir)
  IN  [s EXCEPT
         !.ls = @ \o SegmentSides,
         !.ti = @ \o Repeat(dirArr, 6),
         !.to = @ \o Repeat(dirArr, 6),
         !.lv = @ \o a \o b \o a \o b \o b \o a,
         !.lc = @ \o fromColor \o toColor \o fromColor \o toColor
                  \o toColor \o fromColor]

\* _addCap that gives the cap its tangent on both sides
AddCapTangentOut(s, point, tangent, color) ==
  LET ptArray == VecArray(point)
      tanInArray == DirArray(tangent)
  IN  [s EXCEPT
         !.lv = @ \o Repeat(ptArray, 6),
         !.ti = @ \o Repeat(tanInArray, 6),
         !.to = @ \o Repeat(tanInArray, 6),
         !.lc = @ \o Repeat(color, 6),
         !.ls = @ \o CapSides]

\* _addCap(point, tangent, color)
AddCap(s, point, tangent, color) ==
  LET ptArray == VecArray(point)
      tanInArray == DirArray(tangent)
      tanOutArray == DirArray(ZeroDir)
  IN  [s EXCEPT
         !.lv = @ \o Repeat(ptArray, 6),
         !.ti = @ \o Repeat(tanInArray, 6),
         !.to = @ \o Repeat(tanOutArray, 6),
         !.lc = @ \o Repeat(color, 6),
         !.ls = @ \o CapSides]

\* _addJoin with the two tangents exchanged
AddJoinSwapped(s, point, fromTangent, toTangent, color) ==
  LET ptArray == VecArray(point)
      tanInArray == DirArray(toTangent)
      tanOutArray == DirArray(fromTangent)
  IN  [s EXCEPT
         !.lv = @ \o Repeat(ptArray, 12),
         !.ti = @ \o Repeat(tanInArray, 12),
         !.to = @ \o Repeat(tanOutArray, 12),
         !.lc = @ \o Repeat(color, 12),
         !.ls = @ \o JoinSides]

\* _addJoin(point, fromTangent, toTangent, color)
AddJoin(s, point, fromTangent, toTangent, color) ==
  LET ptArray == VecArray(point)
      tanInArray == DirArray(fromTangent)
      tanOutArray == DirArray(toTangent)
  IN  [s EXCEPT
         !.lv = @ \o Repeat(ptArray, 12),
         !.ti = @ \o Repeat(tanInArray, 12),
         !.to = @ \o Repeat(tanOutArray, 12),
         !.lc = @ \o Repeat(color, 12),
         !.ls = @ \o JoinSides]

----------------------------------------------------------------------------
(* One iteration of the loop of _edgesToVertices(), lines 272-379. *)

\* the stroke color of vertex k (lines 277-288)
StrokeColor(k) ==
  IF Len(vertexStrokeColors) > 0
  THEN Slice(vertexStrokeColors, k * 4, (k + 1) * 4)
  ELSE << 0, 0, 0, 0 >>

\* the continuity branch without its test of the connected set
ContinueLineAgain(s, v, begin, dir, dirOK, fromColor) ==
  LET s1 == [s EXCEPT !.conn = @ \cup {v}, !.caps = CapsDelete(@, v)]
  IN  IF s.lvd # <<>> /\ dirOK /\ DotBelowJoinThreshold(dir, s.lvd[1])
      THEN AddJoin(s1, begin, s.lvd[1], dir, fromColor)
      ELSE s1

\* the continuity branch that leaves the pending record of v in the map
ContinueLineKeepCap(s, v, begin, dir, dirOK, fromColor) ==
  IF v \in s.conn THEN s
  ELSE LET s1 == [s EXCEPT !.conn = @ \cup {v}]
       IN  IF s.lvd # <<>> /\ dirOK /\ DotBelowJoinThreshold(dir, s.lvd[1])
           THEN AddJoin(s1, begin, s.lvd[1], dir, fromColor)
           ELSE s1

\* the edge continues the previous one at vertex v (lines 299-311)
ContinueLine(s, v, begin, dir, dirOK, fromColor) ==
  IF v \in s.conn THEN s
  ELSE LET s1 == [s EXCEPT !.conn = @ \cup {v}, !.caps = CapsDelete(@, v)]
       IN  IF s.lvd # <<>> /\ dirOK /\ DotBelowJoinThreshold(dir, s.lvd[1])
           THEN AddJoin(s1, begin, s.lvd[1], dir, fromColor)
           ELSE s1

\* a new line start that never joins a pending cap
StartLineCapOnly(s, v, begin, dir, dirOK, fromColor) ==
  IF dirOK /\ v \notin s.conn
  THEN [s EXCEPT !.caps = CapsSet(@, v, begin, DirNegate(dir), fromColor)]
  ELSE s

\* a new line start that does not look at the connected set
StartLineUnguarded(s, v, begin, dir, dirOK, fromColor) ==
  IF dirOK
  THEN IF CapsHas(s.caps, v)
       THEN [AddJoin(s, begin, CapsGet(s.caps, v).dir, dir, fromColor)
               EXCEPT !.caps = CapsDelete(@, v), !.conn = @ \cup {v}]
       ELSE [s EXCEPT
               !.caps = CapsSet(@, v, begin, DirNegate(dir), fromColor)]
  ELSE s

\* a new line starts at vertex v (lines 314-332)
StartLine(s, v, begin, dir, dirOK, fromColor) ==
  IF dirOK /\ v \notin s.conn
  THEN IF CapsHas(s.caps, v)
       THEN [AddJoin(s, begin, CapsGet(s.caps, v).dir, dir, fromColor)
               EXCEPT !.caps = CapsDelete(@, v), !.conn = @ \cup {v}]
       ELSE [s EXCEPT
               !.caps = CapsSet(@, v, begin, DirNegate(dir), fromColor)]
  ELSE s

\* closing the previous line without forgetting its direction
ClosePrevLineKeepDir(s, k, fromColor) ==
  IF s.lvd = <<>> THEN s
  ELSE LET pv == edges[k][2]
       IN  IF pv \in s.conn THEN s
           ELSE IF CapsHas(s.caps, pv)
           THEN [AddJoin(s, Vertex(pv), s.lvd[1],
                         DirNegate(CapsGet(s.caps, pv).dir), fromColor)
                   EXCEPT !.caps = CapsDelete(@, pv), !.conn = @ \cup {pv}]
           ELSE [s EXCEPT
                   !.caps = CapsSet(@, pv, Vertex(pv), s.lvd[1], fromColor)]

\* the previous line ended at the end vertex of edge k - 1 (lines 333-353)
ClosePrevLine(s, k, fromColor) ==
  IF s.lvd = <<>> THEN s
  ELSE LET pv == edges[k][2]
       IN  IF pv \in s.conn THEN s
           ELSE LET r ==
                      IF CapsHas(s.caps, pv)
                      THEN [AddJoin(s, Vertex(pv), s.lvd[1],
                                    DirNegate(CapsGet(s.caps, pv).dir),
                                    fromColor)
                              EXCEPT !.caps = CapsDelete(@, pv),
                                     !.conn = @ \cup {pv}]
                      ELSE [s EXCEPT
                              !.caps = CapsSet(@, pv, Vertex(pv), s.lvd[1],
                                               fromColor)]
                IN  [r EXCEPT !.lvd = <<>>]

\* the last edge's end vertex finalised whether connected or not
FinishLastEdgeUnguarded(s, k, v, end, dir, toColor) ==
  IF k = Len(edges) - 1
  THEN IF CapsHas(s.caps, v)
       THEN [AddJoin(s, end, dir, DirNegate(CapsGet(s.caps, v).dir), toColor)
               EXCEPT !.caps = CapsDelete(@, v), !.conn = @ \cup {v}]
       ELSE [s EXCEPT !.caps = CapsSet(@, v, end, dir, toColor)]
  ELSE s

\* the last edge's end vertex left without cap or join
FinishLastEdgeSkipped(s, k, v, end, dir, toColor) == s

\* the last edge's end vertex given a record even where one is pending
FinishLastEdgeCapOnly(s, k, v, end, dir, toColor) ==
  IF k = Len(edges) - 1 /\ v \notin s.conn
  THEN [s EXCEPT !.caps = CapsSet(@, v, end, dir, toColor)]
  ELSE s

\* the end vertex v of the last edge (lines 356-374)
FinishLastEdge(s, k, v, end, dir, toColor) ==
  IF k = Len(edges) - 1 /\ v \notin s.conn
  THEN IF CapsHas(s.caps, v)
       THEN [AddJoin(s, end, dir, DirNegate(CapsGet(s.caps, v).dir), toColor)
               EXCEPT !.caps = CapsDelete(@, v), !.conn = @ \cup {v}]
       ELSE [s EXCEPT !.caps = CapsSet(@, v, end, dir, toColor)]
  ELSE s

\* the body of the loop for edge k (from 0)
EdgeBody(s, k) ==
  LET currEdge == edges[k + 1]
      begin == Vertex(currEdge[1])
      end == Vertex(currEdge[2])
      fromColor == StrokeColor(currEdge[1])
      toColor == StrokeColor(currEdge[2])
      dir == VecNormalize(VecSub(end, begin))
      dirOK == MagSqPositive(dir)
      s1 == IF dirOK
            THEN AddSegment(s, begin, end, fromColor, toColor, dir)
            ELSE s
      s2 == IF k > 0 /\ edges[k][2] = currEdge[1]
            THEN ContinueLine(s1, currEdge[1], begin, dir, dirOK, fromColor)
            ELSE ClosePrevLine(
                   StartLine(s1, currEdge[1], begin, dir, dirOK, fromColor),
                   k, fromColor)
      s3 == FinishLastEdge(s2, k, currEdge[2], end, dir, toColor)
  IN  IF dirOK THEN [s3 EXCEPT !.lvd = << dir >>] ELSE s3

RECURSIVE AddCaps(_, _)
\* the caps of the records still pending, in the map's order (lines 380-382)
AddCaps(s, caps) ==
  IF caps = <<>> THEN s
  ELSE AddCaps(AddCap(s, caps[1].point, caps[1].dir, caps[1].color),
               Tail(caps))

\* the state of the running pass
PassState ==
  [lv |-> lineVertices, ti |-> lineTangentsIn, to |-> lineTangentsOut,
   ls |-> lineSides, lc |-> lineVertexColors, caps |-> potentialCaps,
   conn |-> connected, lvd |-> lastValidDir]

SetPassState(s) ==
  /\ lineVertices' = s.lv
  /\ lineTangentsIn' = s.ti
  /\ lineTangentsOut' = s.to
  /\ lineSides' = s.ls
  /\ lineVertexColors' = s.lc
  /\ potentialCaps' = s.caps
  /\ connected' = s.conn
  /\ lastValidDir' = s.lvd

----------------------------------------------------------------------------
(* _edgesToVertices(), lines 263-384, in its steps. *)

\* entry: four buffers are cleared, the locals are created (lines 264-271)
BeginPass ==
  /\ pc = "idle"
  /\ passes < MaxPasses
  /\ lineVertices' = <<>>
  /\ lineTangentsIn' = <<>>
  /\ lineTangentsOut' = <<>>
  /\ lineSides' = <<>>
  /\ potentialCaps' = <<>>
  /\ connected' = {}
  /\ lastValidDir' = <<>>
  /\ i' = 0
  /\ pc' = "loop"
  /\ passes' = passes + 1
  /\ UNCHANGED << geomVars, lineVertexColors, geometryBuilder, lastCall,
                  callLog, warnings, tessVars >>

\* one edge (lines 272-379)
EdgeStep ==
  /\ pc = "loop"
  /\ i < Len(edges)
  /\ SetPassState(EdgeBody(PassState, i))
  /\ i' = i + 1
  /\ UNCHANGED << geomVars, pc, geometryBuilder, lastCall, passes, callLog,
                  warnings, tessVars >>

\* the caps, and the return (lines 380-383)
FinishPass ==
  /\ pc = "loop"
  /\ i = Len(edges)
  /\ SetPassState([AddCaps(PassState, potentialCaps)
                     EXCEPT !.caps = potentialCaps])
  /\ pc' = "idle"
  /\ lastCall' = Returned("_edgesToVertices")
  /\ UNCHANGED << geomVars, i, geometryBuilder, passes, callLog, warnings,
                  tessVars >>

----------------------------------------------------------------------------
(* reset(), lines 74-89.  Every array is emptied in place; faces is not    *)
(* touched.                                                                *)
Reset ==
  /\ pc = "idle"
  /\ lineVertices' = <<>>
  /\ lineTangentsIn' = <<>>
  /\ lineTangentsOut' = <<>>
  /\ lineSides' = <<>>
  /\ vertices' = <<>>
  /\ edges' = <<>>
  /\ vertexColors' = <<>>
  /\ vertexStrokeColors' = <<>>
  /\ lineVertexColors' = <<>>
  /\ vertexNormals' = <<>>
  /\ uvs' = <<>>
  /\ lastCall' = Returned("reset")
  /\ UNCHANGED << faces, detailX, detailY, arrayId, passVars,
                  geometryBuilder, passes, callLog, warnings, tessVars >>

----------------------------------------------------------------------------
(* The stroke specification: a Geometry whose constructor callback filled  *)
(* in vertices, stroke colors and an edge list.                            *)

PointSeq == << Pt(0, 0, 0), Pt(1, 0, 0), Pt(2, 0, 0), Pt(1, 1, 1) >>

\* the vertex indices of the stroke specification
VertexIds == { 0, 1, 2 }

NumVerts == Cardinality(VertexIds)

\* the vertex lists, up to the order of the vertices; two vertices may
\* share a position
VertexLists ==
  { [k \in 1..NumVerts |-> PointSeq[f[k]]] :
      f \in { g \in [1..NumVerts -> 1..Len(PointSeq)] :
                \A k \in 1..(NumVerts - 1) : g[k] <= g[k + 1] } }

\* the edges: ordered pairs of two vertex indices
EdgeSet == { e \in VertexIds \X VertexIds : e[1] # e[2] }

EdgeLists == UNION { [1..n -> EdgeSet] : n \in 0..MaxEdges }

\* one color per vertex, vertex k in color (k + 1, 0, 0, 1)
RECURSIVE ColorsFor(_)
ColorsFor(n) ==
  IF n = 0 THEN <<>> ELSE ColorsFor(n - 1) \o << n, 0, 0, 1 >>

InitConstructed ==
  /\ uvs = <<>>
  /\ vertexColors = <<>>
  /\ lineVertices = <<>>
  /\ lineTangentsIn = <<>>
  /\ lineTangentsOut = <<>>
  /\ lineSides = <<>>
  /\ lineVertexColors = <<>>
  /\ arrayId = ConstructedIds
  /\ pc = "idle"
  /\ i = 0
  /\ potentialCaps = <<>>
  /\ connected = {}
  /\ lastValidDir = <<>>
  /\ geometryBuilder = <<>>
  /\ lastCall = Returned("constructor")
  /\ passes = 0
  /\ callLog = <<>>
  /\ warnings = 0
  /\ tessNormal = <<>>
  /\ triangleVerts = <<>>
  /\ combined = <<>>

InitStroke ==
  /\ InitConstructed
  /\ vertexNormals = <<>>
  /\ contours = <<>>
  /\ combineArgs = <<>>
  /\ vertices \in VertexLists
  /\ edges \in EdgeLists
  /\ vertexStrokeColors \in { <<>>, ColorsFor(NumVerts) }
  /\ faces = <<>>
  /\ detailX = 1
  /\ detailY = 1

NextStroke == BeginPass \/ EdgeStep \/ FinishPass \/ Reset

SpecStroke == InitStroke /\ [][NextStroke]_vars

(* The same Geometry with longer edge lists over fewer vertex lists: a     *)
(* straight line, a corner, and two vertices at one position.              *)
LongVertexLists ==
  { << PointSeq[1], PointSeq[2], PointSeq[3] >>,
    << PointSeq[1], PointSeq[2], PointSeq[4] >>,
    << PointSeq[1], PointSeq[2], PointSeq[2] >> }

LongEdgeLists == UNION { [1..n -> EdgeSet] : n \in 0..MaxLongEdges }

InitStrokeLong ==
  /\ InitConstructed
  /\ vertexNormals = <<>>
  /\ contours = <<>>
  /\ combineArgs = <<>>
  /\ vertices \in LongVertexLists
  /\ edges \in LongEdgeLists
  /\ vertexStrokeColors = ColorsFor(NumVerts)
  /\ faces = <<>>
  /\ detailX = 1
  /\ detailY = 1

SpecStrokeLong == InitStrokeLong /\ [][NextStroke]_vars

(* Four vertices, the last at the position of the first, and edge lists    *)
(* over five edges: the lines 0->1->2->1 and 0->3->2, of which 0->3 has no  *)
(* length.                                                                  *)
WideVertices == << PointSeq[1], PointSeq[2], PointSeq[4], PointSeq[1] >>

WideEdgeSet ==
  { << 0, 1 >>, << 1, 2 >>, << 2, 1 >>, << 0, 3 >>, << 3, 2 >> }

WideEdgeLists == UNION { [1..n -> WideEdgeSet] : n \in 0..MaxWideEdges }

InitStrokeWide ==
  /\ InitConstructed
  /\ vertexNormals = <<>>
  /\ contours = <<>>
  /\ combineArgs = <<>>
  /\ vertices = WideVertices
  /\ edges \in WideEdgeLists
  /\ vertexStrokeColors = ColorsFor(Len(WideVertices))
  /\ faces = <<>>
  /\ detailX = 1
  /\ detailY = 1

SpecStrokeWide == InitStrokeWide /\ [][NextStroke]_vars

----------------------------------------------------------------------------
(* computeFaces(), lines 96-111, and _makeTriangleEdges(), lines 236-246.  *)

RECURSIVE GridFaces(_, _, _, _)
\* the faces pushed by the two loops from cell (i, j) on
GridFaces(dX, dY, ci, cj) ==
  IF ci >= dY THEN <<>>
  ELSE IF cj >= dX THEN GridFaces(dX, dY, ci + 1, 0)
  ELSE LET sliceCount == dX + 1
           a == ci * sliceCount + cj
           b == ci * sliceCount + cj + 1
           c == (ci + 1) * sliceCount + cj + 1
           d == (ci + 1) * sliceCount + cj
       IN  << << a, b, d >>, << d, b, c >> >> \o GridFaces(dX, dY, ci, cj + 1)

\* computeFaces() without this.faces.length = 0
ComputeFacesKeepOld ==
  /\ pc = "idle"
  /\ faces' = faces \o GridFaces(detailX, detailY, 0, 0)
  /\ lastCall' = Returned("computeFaces")
  /\ UNCHANGED << vertices, vertexNormals, uvs, edges, vertexColors,
                  vertexStrokeColors, detailX, detailY, arrayId, lineVars,
                  passVars, geometryBuilder, passes, callLog, warnings,
                  tessVars >>

ComputeFaces ==
  /\ pc = "idle"
  /\ faces' = GridFaces(detailX, detailY, 0, 0)
  /\ lastCall' = Returned("computeFaces")
  /\ UNCHANGED << vertices, vertexNormals, uvs, edges, vertexColors,
                  vertexStrokeColors, detailX, detailY, arrayId, lineVars,
                  passVars, geometryBuilder, passes, callLog, warnings,
                  tessVars >>

RECURSIVE TriangleEdgesUndirected(_, _)
\* the third edge of every face pushed as (a, c) instead of (c, a)
TriangleEdgesUndirected(fs, j) ==
  IF j > Len(fs) THEN <<>>
  ELSE << << fs[j][1], fs[j][2] >>, << fs[j][2], fs[j][3] >>,
          << fs[j][1], fs[j][3] >> >> \o TriangleEdgesUndirected(fs, j + 1)

RECURSIVE TriangleEdges(_, _)
\* the edges pushed for the faces from face j (from 1) on
TriangleEdges(fs, j) ==
  IF j > Len(fs) THEN <<>>
  ELSE << << fs[j][1], fs[j][2] >>, << fs[j][2], fs[j][3] >>,
          << fs[j][3], fs[j][1] >> >> \o TriangleEdges(fs, j + 1)

MakeTriangleEdges ==
  /\ pc = "idle"
  /\ edges' = TriangleEdges(faces, 1)
  /\ lastCall' = Returned("_makeTriangleEdges")
  /\ UNCHANGED << vertices, vertexNormals, faces, uvs, vertexColors,
                  vertexStrokeColors, detailX, detailY, arrayId, lineVars,
                  passVars, geometryBuilder, passes, callLog, warnings,
                  tessVars >>

(* The grid specification: a Geometry of detailX by detailY cells, empty   *)
(* or filled in by its constructor callback.                               *)

RECURSIVE GridPoints(_)
\* n vertices, vertex k at (k, 0, 0)
GridPoints(n) == IF n = 0 THEN <<>> ELSE Append(GridPoints(n - 1), Pt(n - 1, 0, 0))

InitialFaceLists ==
  { <<>>, << << 0, 1, 2 >> >>, << << 2, 1, 0 >>, << 0, 0, 1 >> >> }

InitialEdgeLists == { <<>>, << << 0, 1 >> >>, << << 5, 6 >>, << 1, 0 >> >> }

InitGrid ==
  /\ InitConstructed
  /\ vertexNormals = <<>>
  /\ contours = <<>>
  /\ combineArgs = <<>>
  /\ detailX \in 0..MaxDetail
  /\ detailY \in 0..MaxDetail
  /\ faces \in InitialFaceLists
  /\ edges \in InitialEdgeLists
  /\ \E filled \in BOOLEAN :
       LET n == IF filled THEN (detailX + 1) * (detailY + 1) ELSE 0
       IN  /\ vertices = GridPoints(n)
           /\ vertexStrokeColors = ColorsFor(n)

NextGrid == ComputeFaces \/ MakeTriangleEdges \/ Reset

SpecGrid == InitGrid /\ [][NextGrid]_vars

----------------------------------------------------------------------------
(* normalize(), lines 508-534. *)

RECURSIVE BoundingMax(_, _, _)
\* the loop of lines 514-521 from vertex k (from 1) on, for the maximum
BoundingMax(vs, k, m) ==
  IF k > Len(vs) THEN m
  ELSE BoundingMax(vs, k + 1,
                   Vec(MathMax(m.x, vs[k].x), MathMax(m.y, vs[k].y),
                       MathMax(m.z, vs[k].z)))

RECURSIVE BoundingMin(_, _, _)
BoundingMin(vs, k, m) ==
  IF k > Len(vs) THEN m
  ELSE BoundingMin(vs, k + 1,
                   Vec(MathMin(m.x, vs[k].x), MathMin(m.y, vs[k].y),
                       MathMin(m.z, vs[k].z)))

\* the longest dimension taken over x and y only
LongestDistXY(dist) == MathMax(dist.x, dist.y)

\* Math.max(Math.max(dist.x, dist.y), dist.z)
LongestDist(dist) == MathMax(MathMax(dist.x, dist.y), dist.z)

(* v.mult(scale).  p5.Vector is not part of this file: mult either         *)
(* multiplies by any number, or (checked) warns and leaves v alone when    *)
(* scale is not finite.                                                    *)
ScaleVertex(v, scale, checked) ==
  IF checked /\ ~IsFinite(scale) THEN v ELSE VecMult(v, scale)

\* the vertices normalize() leaves behind, for a non-empty vs
NormalizedVertices(vs, checked) ==
  LET maxPosition == BoundingMax(vs, 1, vs[1])
      minPosition == BoundingMin(vs, 1, vs[1])
      center == VecLerp(maxPosition, minPosition, Frac(1, 2))
      dist == VecSub(maxPosition, minPosition)
      longestDist == LongestDist(dist)
      scale == NumDiv(Num(NormalizedSize), longestDist)
  IN  [k \in 1..Len(vs) |-> ScaleVertex(VecSub(vs[k], center), scale, checked)]

Normalize ==
  /\ pc = "idle"
  /\ \E checked \in BOOLEAN :
       vertices' = IF Len(vertices) > 0
                   THEN NormalizedVertices(vertices, checked)
                   ELSE vertices
  /\ lastCall' = Returned("normalize")
  /\ UNCHANGED << vertexNormals, faces, uvs, edges, vertexColors,
                  vertexStrokeColors, detailX, detailY, arrayId, lineVars,
                  passVars, geometryBuilder, passes, callLog, warnings,
                  tessVars >>

(* The normalize specification: a Geometry with up to MaxNormVerts         *)
(* vertices at integer positions.                                          *)

NormPoints == { Pt(x, y, z) : x \in { 0, 1, 3 }, y \in { 0, 1 }, z \in { 0, 1 } }

NormVertexLists == UNION { [1..n -> NormPoints] : n \in 0..MaxNormVerts }

InitNormalize ==
  /\ InitConstructed
  /\ vertexNormals = <<>>
  /\ contours = <<>>
  /\ combineArgs = <<>>
  /\ vertices \in NormVertexLists
  /\ vertexStrokeColors = <<>>
  /\ edges = <<>>
  /\ faces = <<>>
  /\ detailX = 1
  /\ detailY = 1

NextNormalize == Normalize \/ Reset

SpecNormalize == InitNormalize /\ [][NextNormalize]_vars

----------------------------------------------------------------------------
(* The renderer: beginGeometry(), lines 1191-1196, and endGeometry(),      *)
(* lines 1207-1214.  A builder is << id >>; undefined is << >>.            *)

\* the builders created so far
BuildersCreated ==
  Cardinality({ k \in 1..Len(callLog) :
                  callLog[k] = Returned("beginGeometry") })

\* beginGeometry() without its guard: a builder in flight is replaced
BeginGeometryUnguarded ==
  /\ Len(callLog) < MaxCalls
  /\ geometryBuilder' = << BuildersCreated + 1 >>
  /\ lastCall' = Returned("beginGeometry")
  /\ callLog' = Append(callLog, lastCall')
  /\ UNCHANGED << geomVars, lineVars, passVars, passes, warnings,
                  tessVars >>

BeginGeometry ==
  /\ Len(callLog) < MaxCalls
  /\ IF geometryBuilder # <<>>
     THEN /\ lastCall' = Threw("beginGeometry")
          /\ UNCHANGED geometryBuilder
     ELSE /\ geometryBuilder' = << BuildersCreated + 1 >>
          /\ lastCall' = Returned("beginGeometry")
  /\ callLog' = Append(callLog, lastCall')
  /\ UNCHANGED << geomVars, lineVars, passVars, passes, warnings,
                  tessVars >>

(* GeometryBuilder is not part of this file: finish() returns or throws.   *)
EndGeometry ==
  /\ Len(callLog) < MaxCalls
  /\ IF geometryBuilder = <<>>
     THEN /\ lastCall' = Threw("endGeometry")
          /\ UNCHANGED geometryBuilder
     ELSE \E finishThrows \in BOOLEAN :
            IF finishThrows
            THEN /\ lastCall' = Threw("endGeometry")
                 /\ UNCHANGED geometryBuilder
            ELSE /\ geometryBuilder' = <<>>
                 /\ lastCall' = Returned("endGeometry")
  /\ callLog' = Append(callLog, lastCall')
  /\ UNCHANGED << geomVars, lineVars, passVars, passes, warnings,
                  tessVars >>

InitRenderer ==
  /\ InitConstructed
  /\ vertexNormals = <<>>
  /\ contours = <<>>
  /\ combineArgs = <<>>
  /\ vertices = <<>>
  /\ vertexStrokeColors = <<>>
  /\ edges = <<>>
  /\ faces = <<>>
  /\ detailX = 1
  /\ detailY = 1

NextRenderer == BeginGeometry \/ EndGeometry

SpecRenderer == InitRenderer /\ [][NextRenderer]_vars

(* buildGeometry(callback), lines 1234-1238: beginGeometry(), callback(),  *)
(* return endGeometry().  The callback is the caller's drawing code: it     *)
(* returns or throws.  The log gets the outcomes of the two inner calls.    *)
BuildGeometry ==
  /\ Len(callLog) + 2 <= MaxCalls
  /\ \E callbackThrows \in BOOLEAN, finishThrows \in BOOLEAN :
       IF geometryBuilder # <<>>
       THEN /\ UNCHANGED geometryBuilder
            /\ callLog' = Append(callLog, Threw("beginGeometry"))
            /\ lastCall' = Threw("buildGeometry")
       ELSE IF callbackThrows
       THEN /\ geometryBuilder' = << BuildersCreated + 1 >>
            /\ callLog' = Append(callLog, Returned("beginGeometry"))
            /\ lastCall' = Threw("buildGeometry")
       ELSE IF finishThrows
       THEN /\ geometryBuilder' = << BuildersCreated + 1 >>
            /\ callLog' = callLog \o << Returned("beginGeometry"),
                                       Threw("endGeometry") >>
            /\ lastCall' = Threw("buildGeometry")
       ELSE /\ geometryBuilder' = <<>>
            /\ callLog' = callLog \o << Returned("beginGeometry"),
                                       Returned("endGeometry") >>
            /\ lastCall' = Returned("buildGeometry")
  /\ UNCHANGED << geomVars, lineVars, passVars, passes, warnings,
                  tessVars >>

NextBuild == BeginGeometry \/ EndGeometry \/ BuildGeometry

SpecBuild == InitRenderer /\ [][NextBuild]_vars

----------------------------------------------------------------------------
(* Reading the stroke buffers. *)

\* the stroke vertices emitted
NumLineVerts == Len(lineSides)

LinePos(k) == SubSeq(lineVertices, 3 * k - 2, 3 * k)
TanIn(k) == SubSeq(lineTangentsIn, 3 * k - 2, 3 * k)
TanOut(k) == SubSeq(lineTangentsOut, 3 * k - 2, 3 * k)

\* a tangent c / sqrt(n) of length 1, and the zero tangent
IsUnitTangent(t) ==
  /\ t[1].n = t[2].n /\ t[2].n = t[3].n
  /\ t[1].c * t[1].c + t[2].c * t[2].c + t[3].c * t[3].c = t[1].n
IsZeroTangent(t) == t[1].c = 0 /\ t[2].c = 0 /\ t[3].c = 0

RECURSIVE KindsFrom(_, _)
\* the kind of primitive each stroke vertex belongs to, read off the side
\* codes from vertex k on: a segment starts 1,1; a join -1,-3; a cap -1,2
KindsFrom(sides, k) ==
  IF k > Len(sides) THEN <<>>
  ELSE IF k + 5 <= Len(sides) /\ SubSeq(sides, k, k + 5) = SegmentSides
       THEN Repeat(<< "segment" >>, 6) \o KindsFrom(sides, k + 6)
  ELSE IF k + 5 <= Len(sides) /\ SubSeq(sides, k, k + 5) = CapSides
       THEN Repeat(<< "cap" >>, 6) \o KindsFrom(sides, k + 6)
  ELSE IF k + 11 <= Len(sides) /\ SubSeq(sides, k, k + 11) = JoinSides
       THEN Repeat(<< "join" >>, 12) \o KindsFrom(sides, k + 12)
  ELSE Repeat(<< "unknown" >>, Len(sides) - k + 1)

LineKinds == KindsFrom(lineSides, 1)

\* _edgesToVertices() has just returned
AfterPass == pc = "idle" /\ lastCall = Returned("_edgesToVertices")

\* the direction of edge e
EdgeDir(e) == VecNormalize(VecSub(Vertex(e[2]), Vertex(e[1])))

----------------------------------------------------------------------------
(* C1: after any sequence of _edgesToVertices() calls, the five stroke     *)
(* buffers describe the same number of stroke vertices:                    *)
(* lineVertices.length / 3 = lineTangentsIn.length / 3 =                   *)
(* lineTangentsOut.length / 3 = lineSides.length =                         *)
(* lineVertexColors.length / 4.                                            *)
C1_BuffersSameCount ==
  AfterPass =>
    /\ Len(lineVertices) = 3 * NumLineVerts
    /\ Len(lineTangentsIn) = 3 * NumLineVerts
    /\ Len(lineTangentsOut) = 3 * NumLineVerts
    /\ Len(lineVertexColors) = 4 * NumLineVerts

(* C2: a single edge between two vertices at distinct positions gives 18   *)
(* stroke vertices: the 6 of the segment, then a 6-vertex cap at the start *)
(* vertex and a 6-vertex cap at the end vertex, and all 12 cap vertices    *)
(* have a zero tangent-out.                                                *)
C2_Case ==
  /\ AfterPass
  /\ Len(edges) = 1
  /\ Vertex(edges[1][1]) # Vertex(edges[1][2])

C2_SingleEdge ==
  C2_Case =>
    /\ NumLineVerts = 18
    /\ Len(lineVertices) = 54
    /\ Len(lineTangentsIn) = 54
    /\ Len(lineTangentsOut) = 54
    /\ lineSides = SegmentSides \o CapSides \o CapSides
    /\ \A k \in 7..12 : LinePos(k) = VecArray(Vertex(edges[1][1]))
    /\ \A k \in 13..18 : LinePos(k) = VecArray(Vertex(edges[1][2]))
    /\ \A k \in 7..18 : IsZeroTangent(TanOut(k))
    /\ \A k \in 1..6 : ~IsZeroTangent(TanOut(k))

C2_Witness == C2_Case

(* C3: for the edges (A,B),(B,C) with A->B perpendicular to B->C, exactly  *)
(* one join is emitted: 12 vertices at B with tangent-in the direction     *)
(* A->B, tangent-out the direction B->C and the side codes                 *)
(* -1,-3,-2,-1,0,-3,3,1,2,3,0,1.                                           *)
Perpendicular(a, b) ==
  /\ MagSqPositive(a)
  /\ MagSqPositive(b)
  /\ a.x * b.x + a.y * b.y + a.z * b.z = 0

TwoEdgeLine == Len(edges) = 2 /\ edges[1][2] = edges[2][1]

C3_Case ==
  /\ AfterPass
  /\ TwoEdgeLine
  /\ Perpendicular(EdgeDir(edges[1]), EdgeDir(edges[2]))

C3_RightAngleJoin ==
  C3_Case =>
    /\ NumLineVerts = 36
    /\ LineKinds = Repeat(<< "segment" >>, 12) \o Repeat(<< "join" >>, 12)
                     \o Repeat(<< "cap" >>, 12)
    /\ SubSeq(lineSides, 13, 24) = << -1, -3, -2, -1, 0, -3, 3, 1, 2, 3, 0, 1 >>
    /\ \A k \in 13..24 :
         /\ LinePos(k) = VecArray(Vertex(edges[1][2]))
         /\ TanIn(k) = DirArray(EdgeDir(edges[1]))
         /\ TanOut(k) = DirArray(EdgeDir(edges[2]))

C3_Witness == C3_Case

(* C4: for the edges (A,B),(B,C) with A, B, C collinear and A->B, B->C in  *)
(* the same direction, no join is emitted at B: the output is two segments *)
(* and two caps, 24 stroke vertices.                                       *)
C4_Case ==
  /\ AfterPass
  /\ TwoEdgeLine
  /\ MagSqPositive(EdgeDir(edges[1]))
  /\ EdgeDir(edges[1]) = EdgeDir(edges[2])

C4_CollinearNoJoin ==
  C4_Case =>
    /\ NumLineVerts = 24
    /\ LineKinds = Repeat(<< "segment" >>, 12) \o Repeat(<< "cap" >>, 12)
    /\ \A k \in 1..NumLineVerts : lineSides[k] \notin { 0, 3, -3 }

C4_Witness == C4_Case

(* C5: for every edge list, zero-length edges included, every tangent-in   *)
(* and tangent-out written is of unit length or exactly zero, and a zero   *)
(* vector occurs only as the tangent-out of a cap vertex: never as a       *)
(* tangent-in, never on a segment or join vertex.                          *)
C5_TangentsUnitOrZero ==
  AfterPass =>
    \A k \in 1..NumLineVerts :
      /\ IsUnitTangent(TanIn(k))
      /\ IsUnitTangent(TanOut(k))
           \/ (IsZeroTangent(TanOut(k)) /\ LineKinds[k] = "cap")

----------------------------------------------------------------------------
(* C6: after reset() every data array of the Geometry is empty, and each   *)
(* is still the array object it was before the call.                       *)
C6_ResetEmptiesAll ==
  lastCall = Returned("reset") =>
    /\ vertices = <<>> /\ vertexNormals = <<>> /\ faces = <<>>
    /\ uvs = <<>> /\ edges = <<>> /\ vertexColors = <<>>
    /\ vertexStrokeColors = <<>>
    /\ lineVertices = <<>> /\ lineTangentsIn = <<>>
    /\ lineTangentsOut = <<>> /\ lineSides = <<>>
    /\ lineVertexColors = <<>>
    /\ arrayId = ConstructedIds

(* C7: after computeFaces(), for all detailX, detailY >= 0 and whatever    *)
(* the face list held before, there are exactly 2 * detailX * detailY      *)
(* faces and every index of every face is in                               *)
(* [0, (detailX + 1) * (detailY + 1)).                                     *)
C7_FaceCount ==
  lastCall = Returned("computeFaces") =>
    /\ Len(faces) = 2 * detailX * detailY
    /\ \A f \in 1..Len(faces) :
         /\ Len(faces[f]) = 3
         /\ \A k \in 1..3 :
              /\ faces[f][k] >= 0
              /\ faces[f][k] < (detailX + 1) * (detailY + 1)

C7_Witness ==
  /\ lastCall = Returned("computeFaces")
  /\ detailX = 2
  /\ detailY >= 1
  /\ faces # <<>>

(* C8: _makeTriangleEdges() makes the edge list, whatever it held before,  *)
(* the edges (a,b), (b,c), (c,a) of every face (a,b,c) in face order,      *)
(* 3 * faces.length entries, and leaves the face list unchanged.           *)
C8_TriangleEdges ==
  [][lastCall' = Returned("_makeTriangleEdges") =>
       /\ faces' = faces
       /\ Len(edges') = 3 * Len(faces)
       /\ \A j \in 1..Len(faces) :
            /\ edges'[3 * j - 2] = << faces[j][1], faces[j][2] >>
            /\ edges'[3 * j - 1] = << faces[j][2], faces[j][3] >>
            /\ edges'[3 * j] = << faces[j][3], faces[j][1] >>]_vars

C8_Witness ==
  /\ lastCall = Returned("_makeTriangleEdges")
  /\ Len(faces) >= 2
  /\ Len(edges) = 3 * Len(faces)

----------------------------------------------------------------------------
(* The bounding box of a vertex list, for the claims about normalize(). *)

Axes == { "x", "y", "z" }

Coord(v, ax) == IF ax = "x" THEN v.x ELSE IF ax = "y" THEN v.y ELSE v.z

AllFinite(vs) ==
  \A k \in 1..Len(vs) : \A ax \in Axes : IsFinite(Coord(vs[k], ax))

\* the least and the greatest coordinate of a non-empty finite vs on ax
Lowest(vs, ax) ==
  LET c == { Coord(vs[k], ax) : k \in 1..Len(vs) }
  IN  CHOOSE m \in c : \A x \in c : ~NumLess(x, m)

Highest(vs, ax) ==
  LET c == { Coord(vs[k], ax) : k \in 1..Len(vs) }
  IN  CHOOSE m \in c : \A x \in c : ~NumLess(m, x)

Extent(vs, ax) == NumSub(Highest(vs, ax), Lowest(vs, ax))

\* the box is centred at the origin and its longest dimension is 200
CentredAndSized(vs) ==
  /\ AllFinite(vs)
  /\ \A ax \in Axes : NumAdd(Highest(vs, ax), Lowest(vs, ax)) = Num(0)
  /\ \A ax \in Axes : ~NumLess(Num(200), Extent(vs, ax))
  /\ \E ax \in Axes : Extent(vs, ax) = Num(200)

\* some dimension of the box is not zero
HasExtent(vs) ==
  /\ vs # <<>>
  /\ AllFinite(vs)
  /\ \E ax \in Axes : NumLess(Num(0), Extent(vs, ax))

(* C9, as stated: for every non-empty vertex set, after normalize() the    *)
(* bounding box is centred at the origin and its longest dimension is 200; *)
(* on an empty vertex set normalize() changes nothing.                     *)
C9_NormalizeAnyVertices ==
  [][lastCall' = Returned("normalize") =>
       IF vertices = <<>> THEN vertices' = <<>>
       ELSE CentredAndSized(vertices')]_vars

(* C9, amended: for every vertex set whose bounding box has a non-zero     *)
(* dimension, after normalize() the bounding box is centred at the origin  *)
(* and its longest dimension is 200; on an empty vertex set normalize()    *)
(* changes nothing.                                                        *)
C9_NormalizeWithExtent ==
  [][lastCall' = Returned("normalize") =>
       /\ vertices = <<>> => vertices' = <<>>
       /\ HasExtent(vertices) => CentredAndSized(vertices')]_vars

C9_Witness ==
  /\ lastCall = Returned("normalize")
  /\ Len(vertices) = 2
  /\ AllFinite(vertices)
  /\ vertices[1] = Vec(Num(-100), Frac(-100, 3), Num(0))
  /\ vertices[2] = Vec(Num(100), Frac(100, 3), Num(0))

----------------------------------------------------------------------------
(* C10: in any sequence of beginGeometry()/endGeometry() calls on one      *)
(* renderer, a call succeeds only when it alternates with the previous     *)
(* successful call (begin first, then end, then begin, ...); an end with   *)
(* no build in flight and a begin while a build is in flight throw and     *)
(* leave geometryBuilder unchanged.                                        *)

\* the calls of the log that returned
Succeeded(log) == SelectSeq(log, LAMBDA e : ~e.threw)

\* the last call that returned was a beginGeometry()
InFlight(log) ==
  LET ok == Succeeded(log)
  IN  ok # <<>> /\ ok[Len(ok)].op = "beginGeometry"

C10_BeginEndAlternate ==
  [][Len(callLog') = Len(callLog) + 1 =>
       LET e == callLog'[Len(callLog')]
           misuse == \/ e.op = "beginGeometry" /\ InFlight(callLog)
                     \/ e.op = "endGeometry" /\ ~InFlight(callLog)
       IN  /\ ~e.threw => ~misuse
           /\ misuse => e.threw /\ geometryBuilder' = geometryBuilder
           /\ InFlight(callLog') <=> geometryBuilder' # <<>>]_vars

C10_Witness ==
  /\ Len(callLog) >= 4
  /\ callLog[1] = Threw("endGeometry")
  /\ callLog[2] = Returned("beginGeometry")
  /\ callLog[3] = Threw("beginGeometry")
  /\ lastCall = Returned("endGeometry")

----------------------------------------------------------------------------
(* The renderer's tessellator: _initTessy(), lines 2523-2569, and          *)
(* _triangulate(), lines 2571-2621.  A contour is a flat array of numbers, *)
(* tessyVertexSize of them for each vertex: the position, then the         *)
(* vertex's other attributes.                                              *)

tessyVertexSize == 12

\* arr[k] for a 0-based k: << value >>, and << >> (undefined) out of range
At(arr, k) == IF k + 1 \in 1..Len(arr) THEN << arr[k + 1] >> ELSE <<>>

\* a !== b on two such reads
StrictNotEqual(a, b) == a # b \/ (a # <<>> /\ IsNaN(a[1]))

\* the values of j in  for (j = 0; j < contour.length; j += tessyVertexSize)
Offsets(contour) ==
  { j \in 0..(Len(contour) - 1) : j % tessyVertexSize = 0 }

\* const z = contours[0] ? contours[0][2] : undefined; an array is truthy
FirstZ(cs) == IF Len(cs) > 0 THEN At(cs[1], 2) ELSE <<>>

\* allSameZ after the loops of lines 2579-2590
AllSameZ(cs) ==
  \A c \in 1..Len(cs) : \A j \in Offsets(cs[c]) :
     ~StrictNotEqual(At(cs[c], j + 2), FirstZ(cs))

\* the coords handed to gluTessVertex for one contour, in order
ContourVertices(contour) ==
  [k \in 1..Cardinality(Offsets(contour)) |->
     Slice(contour, (k - 1) * tessyVertexSize, k * tessyVertexSize)]

\* vertexCallback that keeps the position only
VertexCallbackPosition(data, polyVertArray) ==
  polyVertArray \o SubSeq(data, 1, 3)

\* vertexCallback(data, polyVertArray) pushes every entry of data
VertexCallback(data, polyVertArray) == polyVertArray \o data

\* the array after vertexCallback ran on each of the vertices emitted
RECURSIVE EmitVertices(_, _)
EmitVertices(emitted, polyVertArray) ==
  IF emitted = <<>> THEN polyVertArray
  ELSE EmitVertices(Tail(emitted),
                    VertexCallback(Head(emitted), polyVertArray))

\* data[k][j] * weight[k]; an entry that is missing reads as undefined and
\* the product is NaN
WeightedEntry(data, weight, k, j) ==
  LET e == At(data[k + 1], j)
  IN  IF e = <<>> THEN NaN ELSE NumMul(e[1], weight[k + 1])

\* result[j] after the rounds 0 .. k - 1 of the loop over weight; a round
\* whose weight is 0 or whose data is null or undefined is skipped
RECURSIVE CombinedEntry(_, _, _, _)
CombinedEntry(data, weight, k, j) ==
  IF k = 0 THEN Num(0)
  ELSE LET before == CombinedEntry(data, weight, k - 1, j)
       IN  IF weight[k] = Num(0) \/ At(data, k - 1) \in { <<>>, << <<>> >> }
           THEN before
           ELSE NumAdd(before, WeightedEntry(data, weight, k - 1, j))

\* combinecallback that takes the first vertex's tuple
CombineFirst(data, weight) == data[1]

\* combinecallback(coords, data, weight), lines 2542-2551; null is << >>
CombineCallback(data, weight) ==
  [j \in 1..tessyVertexSize |->
     CombinedEntry(data, weight, Len(weight), j - 1)]

(* The sweep itself is libtess, which this file imports.  It is modelled   *)
(* for contour lists whose filled region is empty or one convex contour:   *)
(* contours that enclose no area yield no triangle, a convex contour of n  *)
(* vertices yields n - 2 triangles that fan out from one of its vertices,  *)
(* and each triangle vertex is emitted with the data of its input vertex.  *)

\* the position of a vertex tuple
Position(t) == Vec(t[1], t[2], t[3])

VecAdd(a, b) == Vec(NumAdd(a.x, b.x), NumAdd(a.y, b.y), NumAdd(a.z, b.z))

VecCross(a, b) ==
  Vec(NumSub(NumMul(a.y, b.z), NumMul(a.z, b.y)),
      NumSub(NumMul(a.z, b.x), NumMul(a.x, b.z)),
      NumSub(NumMul(a.x, b.y), NumMul(a.y, b.x)))

\* twice the area of the triangle a, b, c, as a vector along its normal
TriangleArea(a, b, c) == VecCross(VecSub(b, a), VecSub(c, a))

\* twice the area enclosed by the first k vertices of a contour, as a vector
RECURSIVE EnclosedArea(_, _)
EnclosedArea(vs, k) ==
  IF k < 3 THEN Pt(0, 0, 0)
  ELSE VecAdd(EnclosedArea(vs, k - 1),
              TriangleArea(Position(vs[1]), Position(vs[k - 1]),
                           Position(vs[k])))

\* the contours that enclose an area, as lists of vertex tuples
FilledContours(cs) ==
  SelectSeq([c \in 1..Len(cs) |-> ContourVertices(cs[c])],
            LAMBDA vs : EnclosedArea(vs, Len(vs)) # Pt(0, 0, 0))

\* the triangle vertices of the fan of vs around its vertex number apex
FanVertices(vs, apex) ==
  LET n == Len(vs)
      v(k) == vs[((apex - 1 + k) % n) + 1]
  IN  [m \in 1..(3 * (n - 2)) |->
         LET t == (m - 1) \div 3
             r == (m - 1) % 3
         IN  IF r = 0 THEN v(0) ELSE v(t + r)]

\* the vertex lists the sweep can emit for the contours
SweepOutputs(cs) ==
  IF FilledContours(cs) = <<>> THEN { <<>> }
  ELSE LET vs == FilledContours(cs)[1]
       IN  { FanVertices(vs, apex) : apex \in 1..Len(vs) }

\* _triangulate(contours), lines 2571-2621
Triangulate ==
  /\ tessNormal' = IF AllSameZ(contours) THEN <<0, 0, 1>> ELSE <<0, 0, 0>>
  /\ \E emitted \in SweepOutputs(contours) :
       triangleVerts' = EmitVertices(emitted, <<>>)
  /\ lastCall' = Returned("_triangulate")
  /\ UNCHANGED << geomVars, lineVars, passVars, geometryBuilder, passes,
                  callLog, warnings, contours, combineArgs, combined >>

\* a combine event of the sweep: combinecallback runs on its arguments
Combine ==
  /\ combineArgs # <<>>
  /\ combined' = CombineCallback(combineArgs.data, combineArgs.weight)
  /\ lastCall' = Returned("combinecallback")
  /\ UNCHANGED << geomVars, lineVars, passVars, geometryBuilder, passes,
                  callLog, warnings, contours, tessNormal, triangleVerts,
                  combineArgs >>

\* a vertex tuple: the position, then attributes numbered from a
TessVertex(x, y, z, a) ==
  << Num(x), Num(y), Num(z) >>
    \o [k \in 1..(tessyVertexSize - 3) |-> Num(a + k)]

\* the flat array of a list of vertex tuples
RECURSIVE Flat(_)
Flat(tuples) ==
  IF tuples = <<>> THEN <<>> ELSE Head(tuples) \o Flat(Tail(tuples))

\* contours without area: up to MaxContourVerts vertices stacked along z
StackedContours ==
  UNION { { Flat([k \in 1..n |-> TessVertex(0, 0, zs[k], 10 * k)]) :
              zs \in [1..n -> {0, 1}] } : n \in 0..MaxContourVerts }

\* convex planar quads: squares at z = 0 and z = 1, one of them clockwise,
\* a trapezoid, and a rectangle in the plane z = x / 2
QuadContours ==
  { Flat(<< TessVertex(0, 0, 0, 10), TessVertex(2, 0, 0, 20),
            TessVertex(2, 2, 0, 30), TessVertex(0, 2, 0, 40) >>),
    Flat(<< TessVertex(0, 2, 1, 10), TessVertex(2, 2, 1, 20),
            TessVertex(2, 0, 1, 30), TessVertex(0, 0, 1, 40) >>),
    Flat(<< TessVertex(0, 0, 0, 10), TessVertex(4, 0, 0, 20),
            TessVertex(3, 2, 0, 30), TessVertex(1, 2, 0, 40) >>),
    Flat(<< TessVertex(0, 0, 0, 10), TessVertex(2, 0, 1, 20),
            TessVertex(2, 2, 1, 30), TessVertex(0, 2, 0, 40) >>) }

ContourLists ==
  UNION { [1..n -> StackedContours] : n \in 0..MaxContours }
  \cup { << q >> : q \in QuadContours }
  \cup { << c, q >> : c \in StackedContours, q \in QuadContours }
  \cup { << q, c >> : q \in QuadContours, c \in StackedContours }

InitTriangulate ==
  /\ InitConstructed
  /\ vertexNormals = <<>>
  /\ vertices = <<>>
  /\ vertexStrokeColors = <<>>
  /\ edges = <<>>
  /\ faces = <<>>
  /\ detailX = 1
  /\ detailY = 1
  /\ contours \in ContourLists
  /\ combineArgs = <<>>

NextTriangulate == Triangulate

SpecTriangulate == InitTriangulate /\ [][NextTriangulate]_vars

\* the tuple whose entry j is base + j
TessTuple(base) == [j \in 1..tessyVertexSize |-> Num(base + j)]

\* the data of a combine event: four vertices, some of them null
CombineData == [1..4 -> { <<>>, TessTuple(0), TessTuple(20) }]

CombineWeights ==
  { << Frac(1, 2), Frac(1, 2), Num(0), Num(0) >>,
    << Frac(1, 4), Frac(1, 4), Frac(1, 4), Frac(1, 4) >>,
    << Frac(1, 4), Num(0), Frac(3, 4), Num(0) >>,
    << Num(0), Frac(1, 8), Frac(1, 8), Frac(3, 4) >> }

InitCombine ==
  /\ InitConstructed
  /\ vertexNormals = <<>>
  /\ vertices = <<>>
  /\ vertexStrokeColors = <<>>
  /\ edges = <<>>
  /\ faces = <<>>
  /\ detailX = 1
  /\ detailY = 1
  /\ contours = <<>>
  /\ combineArgs \in [data : CombineData, weight : CombineWeights]

NextCombine == Combine

SpecCombine == InitCombine /\ [][NextCombine]_vars

----------------------------------------------------------------------------
(* Claims about the tessellator. *)

\* the third coordinates of all the vertices of all the contours
ThirdCoordinates(cs) ==
  UNION { { ContourVertices(cs[c])[k][3] :
              k \in 1..(Len(cs[c]) \div tessyVertexSize) } :
          c \in 1..Len(cs) }

(* C11: _triangulate(contours) hints the normal (0, 0, 1) exactly when     *)
(* every vertex of every contour has the same third coordinate, and hints  *)
(* (0, 0, 0) otherwise, for every list of contours, those whose first      *)
(* contour is empty included.                                              *)
C11_HintWhenSameZ ==
  lastCall = Returned("_triangulate") =>
    tessNormal = IF Cardinality(ThirdCoordinates(contours)) <= 1
                 THEN <<0, 0, 1>> ELSE <<0, 0, 0>>

\* the vertices of a combine event that contribute: data and a weight
Contributing(args) ==
  { k \in 1..Len(args.weight) :
      /\ k <= Len(args.data)
      /\ args.data[k] # <<>>
      /\ args.weight[k] # Num(0) }

\* the sum over the vertices in S of weight * entry j of the data
RECURSIVE WeightedSum(_, _, _)
WeightedSum(args, S, j) ==
  IF S = {} THEN Num(0)
  ELSE LET k == CHOOSE m \in S : TRUE
       IN  NumAdd(NumMul(args.weight[k], args.data[k][j]),
                  WeightedSum(args, S \ {k}, j))

(* C12: the tuple a combine event returns has exactly tessyVertexSize (12) *)
(* entries, and its entry j is the sum, over the contributing input        *)
(* vertices, of the vertex's weight times entry j of the vertex's tuple.   *)
C12_CombineWeightedSum ==
  lastCall = Returned("combinecallback") =>
    /\ Len(combined) = 12
    /\ \A j \in 1..12 :
         combined[j] = WeightedSum(combineArgs, Contributing(combineArgs), j)

\* two vertices and two null slots, weights 1/2 and 1/2: entry 1 is
\* (1 + 21) / 2 and entry 12 is (12 + 32) / 2
C12_Witness ==
  /\ lastCall = Returned("combinecallback")
  /\ combineArgs.data = << TessTuple(0), TessTuple(20), <<>>, <<>> >>
  /\ combineArgs.weight = << Frac(1, 2), Frac(1, 2), Num(0), Num(0) >>
  /\ combined[1] = Num(11)
  /\ combined[12] = Num(22)

\* the tuples of a flat triangle list, 12 entries each
OutputTuples(flat) ==
  [k \in 1..(Len(flat) \div 12) |-> SubSeq(flat, 12 * k - 11, 12 * k)]

VecDot(a, b) ==
  NumAdd(NumAdd(NumMul(a.x, b.x), NumMul(a.y, b.y)), NumMul(a.z, b.z))

\* twice the area of triangle number t of a flat triangle list, as a vector
OutputTriangleArea(flat, t) ==
  LET ts == OutputTuples(flat)
  IN  TriangleArea(Position(ts[3 * t - 2]), Position(ts[3 * t - 1]),
                   Position(ts[3 * t]))

\* _triangulate() has run on one convex planar quad
C14_Case ==
  /\ lastCall = Returned("_triangulate")
  /\ Len(contours) = 1
  /\ contours[1] \in QuadContours

(* C14: _triangulate() on a single convex planar quad contour returns a    *)
(* flat list of exactly 6 tuples of width 12, that is 2 triangles of 3     *)
(* consecutive tuples each; every tuple is a vertex tuple of the quad, the *)
(* two triangles face the same way and their areas add up to the area of   *)
(* the quad.                                                               *)
C14_QuadTwoTriangles ==
  C14_Case =>
    LET quad == ContourVertices(contours[1])
        area == EnclosedArea(quad, 4)
        a1   == OutputTriangleArea(triangleVerts, 1)
        a2   == OutputTriangleArea(triangleVerts, 2)
    IN  /\ Len(triangleVerts) = 6 * 12
        /\ \A k \in 1..6 :
             \E q \in 1..4 : OutputTuples(triangleVerts)[k] = quad[q]
        /\ NumLess(Num(0), VecDot(a1, a2))
        /\ VecAdd(a1, a2) \in { area, VecSub(Pt(0, 0, 0), area) }

\* the trapezoid, of area 6, cut into triangles of areas 4 and 2
C14_Witness ==
  /\ C14_Case
  /\ Position(ContourVertices(contours[1])[2]) = Pt(4, 0, 0)
  /\ OutputTriangleArea(triangleVerts, 1) = Pt(0, 0, 8)
  /\ OutputTriangleArea(triangleVerts, 2) = Pt(0, 0, 4)

----------------------------------------------------------------------------
(* Vertex normals: _getFaceNormal(), lines 113-133, and computeNormals(),  *)
(* lines 140-170.  The normal of a face is its cross product n scaled by   *)
(* asin(sinAlpha) / |n|, in general an irrational number; it is kept as    *)
(* the record [n |-> n, angle |-> << sinAlpha^2 >>], and the unscaled n as *)
(* [n |-> n, angle |-> << >>].  The sum a vertex accumulates is kept as    *)
(* the sequence of the normals added to it.                                *)

\* the square of p5.Vector.mag(v)
MagSq(v) == VecDot(v, v)

\* the test  sinAlpha === 0 || isNaN(sinAlpha)  on the square of sinAlpha
ColinearOrRepeated(sinSq) == sinSq = Num(0) \/ IsNaN(sinSq)

\* the square of sinAlpha for the face f: |n|^2 / (|ab|^2 |ac|^2)
SinAlphaSq(f) ==
  LET ab == VecSub(Vertex(f[2]), Vertex(f[1]))
      ac == VecSub(Vertex(f[3]), Vertex(f[1]))
  IN  NumDiv(MagSq(VecCross(ab, ac)), NumMul(MagSq(ab), MagSq(ac)))

\* _getFaceNormal() without its test for a degenerate face: n times NaN
GetFaceNormalUnguarded(f) ==
  LET ab == VecSub(Vertex(f[2]), Vertex(f[1]))
      ac == VecSub(Vertex(f[3]), Vertex(f[1]))
      n  == VecCross(ab, ac)
  IN  IF ColinearOrRepeated(SinAlphaSq(f))
      THEN [n |-> VecMult(n, NaN), angle |-> <<>>]
      ELSE [n |-> n, angle |-> << MathMin(SinAlphaSq(f), Num(1)) >>]

\* the vector _getFaceNormal(faceId) returns for the face f
GetFaceNormal(f) ==
  LET ab == VecSub(Vertex(f[2]), Vertex(f[1]))
      ac == VecSub(Vertex(f[3]), Vertex(f[1]))
      n  == VecCross(ab, ac)
  IN  IF ColinearOrRepeated(SinAlphaSq(f))
      THEN [n |-> n, angle |-> <<>>]
      ELSE [n |-> n, angle |-> << MathMin(SinAlphaSq(f), Num(1)) >>]

\* vertexNormals[vertexIndex].add(faceNormal) for the three vertices of f
AddFaceNormal(normals, f) ==
  LET add(ns, fv) ==
        [ns EXCEPT ![f[fv] + 1] = Append(@, GetFaceNormal(f))]
  IN  add(add(add(normals, 1), 2), 3)

\* the sums after the first k faces
RECURSIVE AccumulatedNormals(_)
AccumulatedNormals(k) ==
  IF k = 0 THEN [v \in 1..Len(vertices) |-> <<>>]
  ELSE AddFaceNormal(AccumulatedNormals(k - 1), faces[k])

\* computeNormals(); the normal of a vertex is its sum, normalised
ComputeNormals ==
  /\ passes < MaxPasses
  /\ passes' = passes + 1
  /\ LET sums == AccumulatedNormals(Len(faces))
     IN  vertexNormals' =
           [v \in 1..Len(vertices) |-> [sum |-> sums[v], normalized |-> TRUE]]
  /\ warnings' = warnings
       + Cardinality({ k \in 1..Len(faces) :
                         ColinearOrRepeated(SinAlphaSq(faces[k])) })
  /\ lastCall' = Returned("computeNormals")
  /\ UNCHANGED << vertices, faces, uvs, edges, vertexColors,
                  vertexStrokeColors, detailX, detailY, arrayId, lineVars,
                  passVars, geometryBuilder, callLog, tessVars >>

\* four vertices: three on a line and one off it, or two that coincide
NormalsVertexLists ==
  { << Pt(0, 0, 0), Pt(1, 0, 0), Pt(2, 0, 0), Pt(0, 1, 0) >>,
    << Pt(0, 0, 0), Pt(1, 0, 0), Pt(1, 0, 0), Pt(0, 1, 1) >> }

\* faces over the four vertices that start at vertex 0
NormalsFaces == { f \in {0} \X (0..3) \X (1..3) : TRUE }

InitNormals ==
  /\ InitConstructed
  /\ vertexNormals = <<>>
  /\ contours = <<>>
  /\ combineArgs = <<>>
  /\ vertices \in NormalsVertexLists
  /\ faces \in UNION { [1..n -> NormalsFaces] : n \in 0..MaxFaces }
  /\ vertexStrokeColors = <<>>
  /\ edges = <<>>
  /\ detailX = 1
  /\ detailY = 1

NextNormals == ComputeNormals

SpecNormals == InitNormals /\ [][NextNormals]_vars

----------------------------------------------------------------------------
(* Claims about the vertex normals. *)

\* the cross product of the sides of face f that leave its first vertex
FaceCross(f) == TriangleArea(Vertex(f[1]), Vertex(f[2]), Vertex(f[3]))

\* face f has colinear sides or a repeated vertex
DegenerateFace(f) == FaceCross(f) = Pt(0, 0, 0)

\* how many of the three corners of face f are the vertex v (from 0)
Corners(f, v) == Cardinality({ fv \in 1..3 : f[fv] = v })

RECURSIVE CornersUpTo(_, _)
CornersUpTo(k, v) ==
  IF k = 0 THEN 0 ELSE CornersUpTo(k - 1, v) + Corners(faces[k], v)

(* C13: a degenerate face (colinear sides or a repeated vertex) does not   *)
(* abort computeNormals(): the call returns with exactly one normal for    *)
(* each vertex, one warning is logged for each degenerate face, every      *)
(* vertex has accumulated one contribution for each corner a face has at   *)
(* it, and the contribution of a face is its unweighted cross product      *)
(* exactly when the face is degenerate, and its cross product with the     *)
(* angle weight otherwise.                                                 *)
C13_DegenerateFaceTolerated ==
  lastCall = Returned("computeNormals") =>
    /\ Len(vertexNormals) = Len(vertices)
    /\ warnings = passes * Cardinality({ k \in 1..Len(faces) :
                                           DegenerateFace(faces[k]) })
    /\ \A v \in 1..Len(vertices) :
         /\ vertexNormals[v].normalized
         /\ Len(vertexNormals[v].sum) = CornersUpTo(Len(faces), v - 1)
         /\ \A k \in 1..Len(faces) :
              Corners(faces[k], v - 1) > 0 =>
                \E t \in 1..Len(vertexNormals[v].sum) :
                  LET c == vertexNormals[v].sum[t]
                  IN  /\ c.n = FaceCross(faces[k])
                      /\ c.angle = <<>> <=> DegenerateFace(faces[k])

\* a face with colinear sides, then a right-angled face: vertex 0 gets the
\* zero cross product of the first and the weighted normal of the second
C13_Witness ==
  /\ lastCall = Returned("computeNormals")
  /\ vertices[4] = Pt(0, 1, 0)
  /\ faces = << <<0, 1, 2>>, <<0, 1, 3>> >>
  /\ warnings = 1
  /\ vertexNormals[1].sum =
       << [n |-> Pt(0, 0, 0), angle |-> <<>>],
          [n |-> Pt(0, 0, 1), angle |-> << Num(1) >>] >>
  /\ vertexNormals[3].sum = << [n |-> Pt(0, 0, 0), angle |-> <<>>] >>

----------------------------------------------------------------------------
(* Claims about one iteration of the loop of _edgesToVertices().  They are *)
(* read off a step of the pass: the edge processed is edge number i (from  *)
(* 0) of the state before the step.                                        *)

\* the step processes an edge
StepTaken == pc = "loop" /\ i' = i + 1

StepEdge == edges[i + 1]
StepBegin == Vertex(StepEdge[1])
StepEnd == Vertex(StepEdge[2])
StepDir == EdgeDir(StepEdge)
\* the edge has a length
StepDirOK == StepBegin # StepEnd
\* the edge starts at the vertex index where the previous edge ended
StepContinues == i > 0 /\ edges[i][2] = StepEdge[1]
StepIsLast == i = Len(edges) - 1

\* the stroke color of vertex index v
VertexColor(v) ==
  IF vertexStrokeColors = <<>> THEN << 0, 0, 0, 0 >>
  ELSE SubSeq(vertexStrokeColors, 4 * v + 1, 4 * v + 4)

\* the stroke vertices the step appends, numbered from 1
NewCount == Len(lineSides') - Len(lineSides)
NewSide(m) == lineSides'[Len(lineSides) + m]
NewPos(m) ==
  SubSeq(lineVertices', 3 * (Len(lineSides) + m) - 2,
         3 * (Len(lineSides) + m))
NewTanIn(m) ==
  SubSeq(lineTangentsIn', 3 * (Len(lineSides) + m) - 2,
         3 * (Len(lineSides) + m))
NewTanOut(m) ==
  SubSeq(lineTangentsOut', 3 * (Len(lineSides) + m) - 2,
         3 * (Len(lineSides) + m))
NewColor(m) ==
  SubSeq(lineVertexColors', Len(lineVertexColors) + 4 * m - 3,
         Len(lineVertexColors) + 4 * m)

\* the vertices m0 + 1 .. m0 + 12 the step appends are a join at pos
JoinAppended(m0, pos, tanIn, tanOut, color) ==
  /\ NewCount >= m0 + 12
  /\ \A m \in 1..12 :
       /\ NewSide(m0 + m) = JoinSides[m]
       /\ NewPos(m0 + m) = VecArray(pos)
       /\ NewTanIn(m0 + m) = DirArray(tanIn)
       /\ NewTanOut(m0 + m) = DirArray(tanOut)
       /\ NewColor(m0 + m) = color

\* the vertices the step appends after the first m0 are joins only
OnlyJoinsAfter(m0) ==
  /\ NewCount >= m0
  /\ (NewCount - m0) % 12 = 0
  /\ \A m \in 1..(NewCount - m0) :
       NewSide(m0 + m) = JoinSides[((m - 1) % 12) + 1]

(* C15: an edge with a length appends exactly 6 segment vertices: the      *)
(* positions begin, end, begin, end, end, begin, the colors from, to,      *)
(* from, to, to, from, the side codes 1, 1, -1, 1, -1, -1, and tangent-in  *)
(* and tangent-out both the edge's direction.  A zero-length edge appends  *)
(* no segment vertex, and the join evaluation at its endpoints still runs: *)
(* a start vertex it shares with the previous edge is marked connected and *)
(* loses its pending cap, and the end vertex of a last edge is finalised.  *)
C15_SegmentPerEdge ==
  [][StepTaken =>
       LET a == VecArray(StepBegin)
           b == VecArray(StepEnd)
           from == VertexColor(StepEdge[1])
           to == VertexColor(StepEdge[2])
       IN  IF StepDirOK
           THEN /\ NewCount >= 6
                /\ \A m \in 1..6 :
                     /\ NewSide(m) = << 1, 1, -1, 1, -1, -1 >>[m]
                     /\ NewPos(m) = << a, b, a, b, b, a >>[m]
                     /\ NewColor(m) = << from, to, from, to, to, from >>[m]
                     /\ NewTanIn(m) = DirArray(StepDir)
                     /\ NewTanOut(m) = DirArray(StepDir)
                /\ OnlyJoinsAfter(6)
           ELSE /\ OnlyJoinsAfter(0)
                /\ StepContinues =>
                     /\ StepEdge[1] \in connected'
                     /\ ~CapsHas(potentialCaps', StepEdge[1])
                /\ StepIsLast =>
                     \/ StepEdge[2] \in connected'
                     \/ CapsHas(potentialCaps', StepEdge[2])]_vars

\* the pass has processed an edge with a length and then a zero-length edge
\* that continues it: 6 stroke vertices, and the shared vertex is connected
C15_Witness ==
  /\ pc = "loop"
  /\ i = 2
  /\ Len(edges) = 3
  /\ Vertex(edges[1][1]) # Vertex(edges[1][2])
  /\ Vertex(edges[2][1]) = Vertex(edges[2][2])
  /\ edges[1][2] = edges[2][1]
  /\ NumLineVerts = 6
  /\ edges[2][1] \in connected

(* C16: when an edge starts at the vertex index where the previous edge    *)
(* ended and that vertex is not yet connected, the vertex is marked        *)
(* connected, its pending cap record is removed, and a 12-vertex join with *)
(* tangent-in lastValidDir and tangent-out dir is appended exactly when    *)
(* lastValidDir and dir are both valid and their dot product is below      *)
(* 1 - 1e-8 (for the directions of this model: when they differ).  When    *)
(* the vertex is already connected nothing is appended for it.  Besides    *)
(* the segment and that join the step appends only the join that           *)
(* finalises the end vertex of a last edge.                                *)
C16_ContinuityJoin ==
  [][StepTaken /\ StepContinues =>
       LET v == StepEdge[1]
           m0 == IF StepDirOK THEN 6 ELSE 0
           joined == /\ v \notin connected
                     /\ lastValidDir # <<>>
                     /\ StepDirOK
                     /\ lastValidDir[1] # StepDir
           lastJoin == /\ StepIsLast
                       /\ StepEdge[2] \notin connected
                       /\ CapsHas(potentialCaps, StepEdge[2])
       IN  /\ v \in connected'
           /\ v \notin connected => ~CapsHas(potentialCaps', v)
           /\ joined => JoinAppended(m0, StepBegin, lastValidDir[1], StepDir,
                                     VertexColor(v))
           /\ NewCount = m0 + (IF joined THEN 12 ELSE 0)
                           + (IF lastJoin THEN 12 ELSE 0)]_vars

\* the line 0 -> 1 -> 0 -> 1 -> 0: joins at vertex 1 and at vertex 0, and
\* the fourth edge starts at vertex 1, connected already, and adds its
\* segment only
C16_Witness ==
  /\ pc = "loop"
  /\ i = 4
  /\ edges = << <<0, 1>>, <<1, 0>>, <<0, 1>>, <<1, 0>> >>
  /\ Vertex(0) # Vertex(1)
  /\ connected = {0, 1}
  /\ NumLineVerts = 48

\* the end vertex of the previous edge
StepPrevEnd == edges[i][2]

\* the record pending at vertex v before the step, and after it
PendingAt(v) == CapsGet(potentialCaps, v)
PendingAfterAt(v) == CapsGet(potentialCaps', v)

\* nothing changes for vertex v in the connected set and the pending caps
UntouchedAt(v) ==
  /\ v \in connected' <=> v \in connected
  /\ CapsHas(potentialCaps', v) <=> CapsHas(potentialCaps, v)
  /\ CapsHas(potentialCaps, v) => PendingAfterAt(v) = PendingAt(v)

\* the step finalises the end vertex of the last edge, and that vertex is v
FinalisedInStep(v) == StepIsLast /\ StepEdge[2] = v

(* C17 as stated: when an edge does not start where the previous edge      *)
(* ended, the start vertex of the edge and the end vertex of the previous  *)
(* edge are both resolved: a vertex with a pending record gets a join, is  *)
(* marked connected and loses the record, and a vertex without one gets a  *)
(* new record.                                                             *)
C17_BothResolved ==
  [][StepTaken /\ ~StepContinues =>
       LET v == StepEdge[1]
       IN  /\ IF CapsHas(potentialCaps, v)
              THEN v \in connected' /\ ~CapsHas(potentialCaps', v)
              ELSE CapsHas(potentialCaps', v)
           /\ i > 0 /\ ~FinalisedInStep(StepPrevEnd) =>
                IF CapsHas(potentialCaps, StepPrevEnd)
                THEN /\ StepPrevEnd \in connected'
                     /\ ~CapsHas(potentialCaps', StepPrevEnd)
                ELSE CapsHas(potentialCaps', StepPrevEnd)]_vars

(* C17, amended: when an edge does not start where the previous edge       *)
(* ended, its start vertex is resolved only if the edge has a length and   *)
(* the vertex is not connected, and the end vertex of the previous edge    *)
(* only if lastValidDir is set and that vertex is not connected; a vertex  *)
(* that is resolved gets a 12-vertex join, is marked connected and loses   *)
(* its record if a record is pending at it, and a new record with its      *)
(* outward tangent otherwise; for a vertex that is not resolved nothing is *)
(* appended or registered.                                                 *)
C17_ResolvedWhenGuardsHold ==
  [][StepTaken /\ ~StepContinues =>
       LET v == StepEdge[1]
           pv == StepPrevEnd
           color == VertexColor(v)
           m0 == IF StepDirOK THEN 6 ELSE 0
           startActs == StepDirOK /\ v \notin connected
           startJoins == startActs /\ CapsHas(potentialCaps, v)
           m1 == IF startJoins THEN m0 + 12 ELSE m0
           prevActs == i > 0 /\ lastValidDir # <<>> /\ pv \notin connected
           prevJoins == prevActs /\ CapsHas(potentialCaps, pv)
           m2 == IF prevJoins THEN m1 + 12 ELSE m1
       IN  /\ IF startJoins
              THEN /\ JoinAppended(m0, StepBegin, PendingAt(v).dir, StepDir,
                                   color)
                   /\ v \in connected'
                   /\ ~CapsHas(potentialCaps', v)
              ELSE IF startActs
              THEN /\ v \notin connected'
                   /\ CapsHas(potentialCaps', v)
                   /\ PendingAfterAt(v) =
                        [key |-> v, point |-> StepBegin,
                         dir |-> DirNegate(StepDir), color |-> color]
              ELSE UntouchedAt(v)
           /\ i > 0 =>
                IF prevJoins
                THEN /\ JoinAppended(m1, Vertex(pv), lastValidDir[1],
                                     DirNegate(PendingAt(pv).dir), color)
                     /\ pv \in connected'
                     /\ ~CapsHas(potentialCaps', pv)
                ELSE IF FinalisedInStep(pv)
                THEN prevActs => pv \in connected'
                ELSE IF prevActs
                THEN /\ pv \notin connected'
                     /\ CapsHas(potentialCaps', pv)
                     /\ PendingAfterAt(pv) =
                          [key |-> pv, point |-> Vertex(pv),
                           dir |-> lastValidDir[1], color |-> color]
                ELSE UntouchedAt(pv)
           /\ NewCount \in { m2, m2 + 12 }
           /\ NewCount = m2 + 12 => StepIsLast]_vars

\* the edges (0,1), (0,2) at three distinct positions: the second edge
\* starts a new line at vertex 0, where the record of the first edge is
\* pending, so that the step appends a segment and a join at vertex 0, and
\* the end vertex 1 of the first edge gets a record
C17_Witness ==
  /\ pc = "loop"
  /\ i = 2
  /\ Len(edges) = 3
  /\ edges[1] = <<0, 1>>
  /\ edges[2] = <<0, 2>>
  /\ Cardinality({ Vertex(0), Vertex(1), Vertex(2) }) = 3
  /\ connected = {0}
  /\ NumLineVerts = 24
  /\ CapsHas(potentialCaps, 1)
  /\ ~CapsHas(potentialCaps, 0)

\* on a last edge that starts a new line, the previous edge's end vertex is
\* the edge's own end vertex and is resolved before it is finalised
PrevEndIsEnd ==
  /\ ~StepContinues
  /\ i > 0
  /\ StepPrevEnd = StepEdge[2]
  /\ lastValidDir # <<>>
  /\ StepEdge[2] \notin connected

\* the end vertex is connected when the last edge comes to finalise it
EndConnected ==
  \/ StepEdge[2] \in connected
  \/ PrevEndIsEnd /\ CapsHas(potentialCaps, StepEdge[2])

\* the record pending at the end vertex at that point: << record >> or << >>
EndRecord ==
  IF PrevEndIsEnd
  THEN IF CapsHas(potentialCaps, StepEdge[2]) THEN <<>>
       ELSE << [key |-> StepEdge[2], point |-> StepEnd,
                dir |-> lastValidDir[1],
                color |-> VertexColor(StepEdge[1])] >>
  ELSE IF CapsHas(potentialCaps, StepEdge[2])
  THEN << PendingAt(StepEdge[2]) >>
  ELSE <<>>

\* the step that ends the pass: the caps are appended
PassFinished == pc = "loop" /\ pc' = "idle"

\* the vertices 6 r - 5 .. 6 r the step appends are the cap of record r
CapAppended(r) ==
  /\ NewCount >= 6 * r
  /\ \A m \in 1..6 :
       /\ NewSide(6 * (r - 1) + m) = << -1, 2, -2, 1, 2, -1 >>[m]
       /\ NewPos(6 * (r - 1) + m) = VecArray(potentialCaps[r].point)
       /\ NewTanIn(6 * (r - 1) + m) = DirArray(potentialCaps[r].dir)
       /\ NewTanOut(6 * (r - 1) + m) = DirArray(ZeroDir)
       /\ NewColor(6 * (r - 1) + m) = potentialCaps[r].color

(* C18 as stated: on the last edge the end vertex gets a join if a record  *)
(* is pending at it, is then marked connected and loses the record, and    *)
(* gets a new record otherwise.                                            *)
C18_LastEndFinalised ==
  [][StepTaken /\ StepIsLast =>
       LET e == StepEdge[2]
       IN  IF EndRecord # <<>>
           THEN /\ JoinAppended(NewCount - 12, StepEnd, StepDir,
                                DirNegate(EndRecord[1].dir), VertexColor(e))
                /\ e \in connected'
                /\ ~CapsHas(potentialCaps', e)
           ELSE CapsHas(potentialCaps', e)]_vars

(* C18, amended: on the last edge the end vertex is finalised only if it   *)
(* is not connected: it gets a join (tangent-in the edge's direction,      *)
(* tangent-out the negated tangent of the record), is marked connected and *)
(* loses the record if a record is pending at it, and otherwise gets a     *)
(* record with the edge's direction as outward tangent, which the end of   *)
(* the pass turns into a cap.  An end vertex that is connected gets        *)
(* neither.                                                                *)
C18_LastEndFinalisedUnlessConnected ==
  [][/\ StepTaken /\ StepIsLast =>
          LET e == StepEdge[2]
          IN  IF EndConnected
              THEN e \in connected' /\ ~CapsHas(potentialCaps', e)
              ELSE IF EndRecord # <<>>
              THEN /\ JoinAppended(NewCount - 12, StepEnd, StepDir,
                                   DirNegate(EndRecord[1].dir),
                                   VertexColor(e))
                   /\ e \in connected'
                   /\ ~CapsHas(potentialCaps', e)
              ELSE /\ e \notin connected'
                   /\ CapsHas(potentialCaps', e)
                   /\ PendingAfterAt(e) =
                        [key |-> e, point |-> StepEnd, dir |-> StepDir,
                         color |-> VertexColor(e)]
     /\ PassFinished /\ edges # <<>> =>
          \A r \in 1..Len(potentialCaps) :
             potentialCaps[r].key = edges[Len(edges)][2] => CapAppended(r)]_vars

\* the closed line 0 -> 1 -> 2 -> 0 around a triangle: the last edge ends
\* at vertex 0, where the record of the first edge is pending, and joins
C18_Witness ==
  /\ pc = "loop"
  /\ i = 3
  /\ edges = << <<0, 1>>, <<1, 2>>, <<2, 0>> >>
  /\ vertices = << PointSeq[1], PointSeq[2], PointSeq[4] >>
  /\ connected = {0, 1, 2}
  /\ potentialCaps = <<>>
  /\ NumLineVerts = 54

(* C19 as stated: lastValidDir is replaced by the direction of the edge    *)
(* when the edge has a length, and a zero-length edge, whether it          *)
(* continues the line or starts a new one, leaves lastValidDir exactly as  *)
(* it was.                                                                 *)
C19_ZeroLengthKeepsDir ==
  [][StepTaken =>
       lastValidDir' = IF StepDirOK THEN << StepDir >> ELSE lastValidDir]_vars

\* the edge starts a new line and closes a previous line that has a valid
\* direction and an end vertex that is not connected
ClosesPrevLine ==
  /\ ~StepContinues
  /\ i > 0
  /\ lastValidDir # <<>>
  /\ StepPrevEnd \notin connected

(* C19, amended: lastValidDir is replaced by the direction of the edge     *)
(* when the edge has a length.  A zero-length edge that continues the line *)
(* leaves lastValidDir as it was; a zero-length edge that starts a new     *)
(* line leaves lastValidDir undefined if it closes the previous line       *)
(* (lastValidDir set, the previous edge's end vertex not connected), and   *)
(* as it was otherwise.                                                    *)
C19_ZeroLengthKeepsDirInLine ==
  [][StepTaken =>
       lastValidDir' = IF StepDirOK THEN << StepDir >>
                       ELSE IF ClosesPrevLine THEN <<>>
                       ELSE lastValidDir]_vars

\* an edge with a length, then a zero-length edge that continues it: the
\* direction of the first edge is still the last valid one
C19_Witness ==
  /\ pc = "loop"
  /\ i = 2
  /\ Len(edges) = 3
  /\ edges[1][2] = edges[2][1]
  /\ Vertex(edges[1][1]) # Vertex(edges[1][2])
  /\ Vertex(edges[2][1]) = Vertex(edges[2][2])
  /\ lastValidDir = << EdgeDir(edges[1]) >>

(* C20: at the end of the pass every record still pending yields exactly   *)
(* one cap, in the map's order: 6 vertices at the record's point with      *)
(* tangent-in the record's tangent, tangent-out (0, 0, 0), the record's    *)
(* color and the side codes -1, 2, -2, 1, 2, -1.  The caps are appended to *)
(* the vertices of the loop, which are segment and join vertices only, so  *)
(* that every cap vertex comes after every segment and join vertex.        *)
C20_CapsAfterPass ==
  [][PassFinished =>
       /\ NewCount = 6 * Len(potentialCaps)
       /\ \A r \in 1..Len(potentialCaps) : CapAppended(r)
       /\ SubSeq(lineSides', 1, Len(lineSides)) = lineSides
       /\ \A k \in 1..Len(lineSides) :
            LineKinds[k] \in { "segment", "join" }]_vars

\* two edges around a corner, the pass finished: two segments and a join,
\* then the caps of the two records left pending
C20_Witness ==
  /\ AfterPass
  /\ Len(edges) = 2
  /\ Len(potentialCaps) = 2
  /\ Cardinality(connected) = 1
  /\ LineKinds = Repeat(<< "segment" >>, 12) \o Repeat(<< "join" >>, 12)
                   \o Repeat(<< "cap" >>, 12)
  /\ \A k \in 25..36 : IsZeroTangent(TanOut(k))

----------------------------------------------------------------------------
(* Claims about the stroke vertices of a whole pass. *)

\* the direction a tangent of the buffers stands for
TangentDir(t) == Dir(t[1].c, t[2].c, t[3].c, t[1].n)

(* C21: every join in the buffers, whichever path of the pass emitted it,  *)
(* bridges two segments that are not collinear: the dot product of its     *)
(* tangent-in and its tangent-out is below 1 - 1e-8.                       *)
C21_JoinsNotCollinear ==
  \A k \in 1..NumLineVerts :
     LineKinds[k] = "join" =>
       DotBelowJoinThreshold(TangentDir(TanIn(k)), TangentDir(TanOut(k)))

----------------------------------------------------------------------------
(* averageNormals() and averagePoleNormals(): smoothing the normals along   *)
(* the seam and at the poles of a curved surface.                           *)

\* p5.Vector.div(v, n)
VecDiv(v, n) == Vec(NumDiv(v.x, n), NumDiv(v.y, n), NumDiv(v.z, n))

\* p5.Vector.add(a, b) alone
RowSum(a, b) == VecAdd(a, b)

\* the value both ends of a row get: p5.Vector.div(p5.Vector.add(a, b), 2)
RowMean(a, b) == VecDiv(VecAdd(a, b), Num(2))

RECURSIVE AveragedRows(_, _)
\* the normals after the loop of averageNormals has run for the rows 0..rows-1
AveragedRows(ns, rows) ==
  IF rows = 0 THEN ns
  ELSE LET prev   == AveragedRows(ns, rows - 1)
           r      == rows - 1
           offset == detailX + 1
           temp   == RowMean(prev[r * offset + 1], prev[r * offset + detailX + 1])
       IN  [prev EXCEPT ![r * offset + 1] = temp,
                        ![r * offset + detailX + 1] = temp]

AverageNormals ==
  /\ pc = "idle"
  /\ passes < MaxPasses
  /\ vertexNormals' = AveragedRows(vertexNormals, detailY + 1)
  /\ passes' = passes + 1
  /\ lastCall' = Returned("averageNormals")
  /\ UNCHANGED << vertices, faces, uvs, edges, vertexColors, vertexStrokeColors,
                  detailX, detailY, arrayId, lineVars, passVars,
                  geometryBuilder, callLog, warnings, tessVars >>

RECURSIVE SumNormals(_, _)
\* sum.add(ns[k]) for the 0-based indices k of ks, starting from (0, 0, 0)
SumNormals(ns, ks) ==
  IF ks = {} THEN Pt(0, 0, 0)
  ELSE LET k == CHOOSE x \in ks : TRUE
       IN  VecAdd(SumNormals(ns, ks \ {k}), ns[k + 1])

\* every normal with an index in ks replaced by their sum
PoleSummed(ns, ks) ==
  LET sum == SumNormals(ns, ks)
  IN  [k \in 1..Len(ns) |-> IF (k - 1) \in ks THEN sum ELSE ns[k]]

\* every normal with an index in ks replaced by their mean
PoleAveraged(ns, ks) ==
  LET sum == VecDiv(SumNormals(ns, ks), Num(detailX))
  IN  [k \in 1..Len(ns) |-> IF (k - 1) \in ks THEN sum ELSE ns[k]]

\* the indices of the two loops of averagePoleNormals
NorthIndices == 0..(detailX - 1)
SouthIndices == (Len(vertices) - detailX)..(Len(vertices) - 1)

AveragePoleNormals ==
  /\ pc = "idle"
  /\ passes < MaxPasses
  /\ vertexNormals' =
       PoleAveraged(PoleAveraged(vertexNormals, NorthIndices), SouthIndices)
  /\ passes' = passes + 1
  /\ lastCall' = Returned("averagePoleNormals")
  /\ UNCHANGED << vertices, faces, uvs, edges, vertexColors, vertexStrokeColors,
                  detailX, detailY, arrayId, lineVars, passVars,
                  geometryBuilder, callLog, warnings, tessVars >>

\* the normals a surface starts with
NormalSet == { Pt(1, 0, 0), Pt(0, 1, 0) }

\* a surface of (detailX + 1) x (detailY + 1) vertices with one normal each
InitAverage ==
  /\ InitConstructed
  /\ \E dx \in 0..MaxDetail, dy \in 0..MaxDetail :
       /\ detailX = dx
       /\ detailY = dy
       /\ vertices = GridPoints((dx + 1) * (dy + 1))
       /\ vertexNormals \in [1..((dx + 1) * (dy + 1)) -> NormalSet]
  /\ faces = <<>>
  /\ edges = <<>>
  /\ vertexStrokeColors = <<>>
  /\ contours = <<>>
  /\ combineArgs = <<>>

NextAverage == AverageNormals \/ AveragePoleNormals

SpecAverage == InitAverage /\ [][NextAverage]_vars

----------------------------------------------------------------------------
(* Claims about the smoothed normals. *)

AverageNormalsStep ==
  passes' = passes + 1 /\ lastCall' = Returned("averageNormals")

\* the 0-based indices of the first and the last normal of row r
RowFirst(r) == r * (detailX + 1)
RowLast(r) == r * (detailX + 1) + detailX

\* half the sum of two vectors
HalfSum(a, b) == VecMult(VecAdd(a, b), Frac(1, 2))

(* C22: averageNormals() on a grid of (detailX + 1) x (detailY + 1) normals *)
(* leaves, for every row, the first and the last normal of the row equal to *)
(* each other and to the mean of the values the two had before the call;    *)
(* every other normal is unchanged.                                         *)
C22_SeamAveraged ==
  [][AverageNormalsStep /\ Len(vertexNormals) = (detailX + 1) * (detailY + 1) =>
       /\ Len(vertexNormals') = Len(vertexNormals)
       /\ \A r \in 0..detailY :
            LET mean == HalfSum(vertexNormals[RowFirst(r) + 1],
                                vertexNormals[RowLast(r) + 1])
            IN  /\ vertexNormals'[RowFirst(r) + 1] = mean
                /\ vertexNormals'[RowLast(r) + 1] = mean
       /\ \A k \in 1..Len(vertexNormals) :
            (\A r \in 0..detailY : k - 1 \notin { RowFirst(r), RowLast(r) })
              => vertexNormals'[k] = vertexNormals[k]]_vars

\* a row of three normals whose ends differed and now hold their mean, the
\* middle one as it was
C22_Witness ==
  /\ lastCall = Returned("averageNormals")
  /\ passes = 1
  /\ detailX = 2
  /\ detailY = 1
  /\ vertexNormals[1] = Vec(Frac(1, 2), Frac(1, 2), Num(0))
  /\ vertexNormals[3] = vertexNormals[1]
  /\ vertexNormals[2] = Pt(0, 1, 0)
  /\ vertexNormals[4] = Pt(1, 0, 0)

AveragePoleNormalsStep ==
  passes' = passes + 1 /\ lastCall' = Returned("averagePoleNormals")

\* the mean of the normals of ns with a 0-based index in ks
MeanOf(ns, ks) == VecMult(SumNormals(ns, ks), Frac(1, Cardinality(ks)))

(* C23: averagePoleNormals() with detailX >= 1, one normal per vertex and   *)
(* at least 2 * detailX vertices leaves the first detailX normals all equal *)
(* to the mean of the values they had before, the last detailX normals all  *)
(* equal to the mean of theirs, and every other normal unchanged.           *)
C23_PolesAveraged ==
  [][/\ AveragePoleNormalsStep
     /\ detailX >= 1
     /\ Len(vertexNormals) = Len(vertices)
     /\ Len(vertices) >= 2 * detailX
     => LET n     == Len(vertices)
            north == 0..(detailX - 1)
            south == (n - detailX)..(n - 1)
        IN  /\ Len(vertexNormals') = n
            /\ \A k \in north :
                 vertexNormals'[k + 1] = MeanOf(vertexNormals, north)
            /\ \A k \in south :
                 vertexNormals'[k + 1] = MeanOf(vertexNormals, south)
            /\ \A k \in (0..(n - 1)) \ (north \cup south) :
                 vertexNormals'[k + 1] = vertexNormals[k + 1]]_vars

\* nine normals, two per pole: both poles hold the mean of two normals
\* that differed, the normals in between are as they were
C23_Witness ==
  /\ lastCall = Returned("averagePoleNormals")
  /\ passes = 1
  /\ detailX = 2
  /\ detailY = 2
  /\ vertexNormals[1] = Vec(Frac(1, 2), Frac(1, 2), Num(0))
  /\ vertexNormals[2] = vertexNormals[1]
  /\ vertexNormals[8] = vertexNormals[1]
  /\ vertexNormals[9] = vertexNormals[1]
  /\ vertexNormals[3] = Pt(1, 0, 0)
  /\ vertexNormals[7] = Pt(0, 1, 0)

----------------------------------------------------------------------------
(* Claims about the bookkeeping of a pass. *)

\* no vertex index is connected and has a pending record
ConnectedApartFromCaps ==
  \A v \in connected : ~CapsHas(potentialCaps, v)

(* C24: in every state of a pass no vertex index is both in connected and  *)
(* a key of potentialCaps; over every iteration of the loop and over the    *)
(* final caps loop a connected index stays connected, and no record is      *)
(* registered for it.                                                       *)
C24_ConnectedNeverPending ==
  [][/\ ConnectedApartFromCaps
     /\ ConnectedApartFromCaps'
     /\ pc = "loop" =>
          /\ connected \subseteq connected'
          /\ \A v \in connected : ~CapsHas(potentialCaps', v)]_vars

\* edges 1->2, 0->1, 1->0: vertex 1 gets a record from the first edge, is
\* joined and connected by the second, and is the start of the third
C24_Witness ==
  /\ AfterPass
  /\ edges = << << 1, 2 >>, << 0, 1 >>, << 1, 0 >> >>
  /\ 1 \in connected
  /\ potentialCaps # <<>>

\* the number of joins an iteration appends, after the segment of its edge
NewJoins == (NewCount - (IF StepDirOK THEN 6 ELSE 0)) \div 12

\* the position of the j-th of them
NewJoinPos(j) == NewPos((IF StepDirOK THEN 6 ELSE 0) + 12 * (j - 1) + 1)

\* the number of stroke vertices of one kind in the buffers
KindCount(kind) == Cardinality({ k \in 1..NumLineVerts : LineKinds[k] = kind })

(* C25: a pass anchors at most one join and at most one cap at a vertex    *)
(* index, and never both.  Every join an iteration appends is anchored at   *)
(* a vertex index of its own that was not connected before the iteration    *)
(* and is connected after it, and a connected index stays connected; the    *)
(* caps loop appends no join and one cap per pending record, the records    *)
(* have different keys, each cap is at the position of its key, and no key  *)
(* is a connected index.                                                    *)
C25_OneAnchorPerIndex ==
  [][/\ StepTaken =>
          /\ OnlyJoinsAfter(IF StepDirOK THEN 6 ELSE 0)
          /\ connected \subseteq connected'
          /\ \E f \in [1..NewJoins -> connected' \ connected] :
               /\ \A j1, j2 \in 1..NewJoins : f[j1] = f[j2] => j1 = j2
               /\ \A j \in 1..NewJoins : NewJoinPos(j) = VecArray(Vertex(f[j]))
     /\ PassFinished =>
          /\ NewCount = 6 * Len(potentialCaps)
          /\ \A r \in 1..Len(potentialCaps) :
               /\ CapAppended(r)
               /\ potentialCaps[r].point = Vertex(potentialCaps[r].key)
               /\ potentialCaps[r].key \notin connected
               /\ \A q \in 1..Len(potentialCaps) :
                    potentialCaps[q].key = potentialCaps[r].key => q = r]_vars

\* three edges that all touch vertex 1, at a corner: one join at vertex 1,
\* one at vertex 0, one cap at vertex 2
C25_Witness ==
  /\ AfterPass
  /\ vertices = << PointSeq[1], PointSeq[2], PointSeq[4] >>
  /\ edges = << << 0, 1 >>, << 2, 1 >>, << 1, 0 >> >>
  /\ connected = { 0, 1 }
  /\ Len(potentialCaps) = 1
  /\ potentialCaps[1].key = 2
  /\ KindCount("join") = 24
  /\ KindCount("cap") = 6

\* the edges form one open chain: each edge starts at the vertex index where
\* the previous one ended, and no vertex index is visited twice
IsOpenChain(es) ==
  /\ Len(es) >= 1
  /\ \A k \in 1..(Len(es) - 1) : es[k][2] = es[k + 1][1]
  /\ Cardinality({ es[1][1] } \cup { es[k][2] : k \in 1..Len(es) })
       = Len(es) + 1

\* edge e has a length
NonDegenerate(e) == Vertex(e[1]) # Vertex(e[2])

\* the stroke vertices that open a cap
CapStarts ==
  { k \in 1..NumLineVerts : LineKinds[k] = "cap" /\ (k - 1) % 6 = 0 }

(* C26: after a pass over one open chain with at least one edge that has a *)
(* length, the buffers hold exactly two caps, one at the position of the    *)
(* chain's first vertex and one at the position of its last vertex, also    *)
(* when the first or the last edge has no length.                           *)
C26_ChainHasTwoCaps ==
  AfterPass /\ IsOpenChain(edges) /\ (\E k \in 1..Len(edges) : NonDegenerate(edges[k]))
    => /\ KindCount("cap") = 12
       /\ \E k1, k2 \in CapStarts :
            /\ k1 # k2
            /\ LinePos(k1) = VecArray(Vertex(edges[1][1]))
            /\ LinePos(k2) = VecArray(Vertex(edges[Len(edges)][2]))

\* the colors of the 12 vertices of the j-th join an iteration appends
NewJoinColors(j) ==
  { NewColor((IF StepDirOK THEN 6 ELSE 0) + 12 * (j - 1) + m) : m \in 1..12 }

(* C27: every join and every cap has, on all of its vertices, the stroke   *)
(* color of the vertex index it is anchored at.  The joins an iteration     *)
(* appends are those of vertex indices the iteration connects, each with    *)
(* the position and the color of its index; the cap of every pending        *)
(* record has the color of the record's key.                                *)
C27_AnchorColor ==
  [][/\ StepTaken =>
          \E f \in [1..NewJoins -> connected' \ connected] :
            /\ \A j1, j2 \in 1..NewJoins : f[j1] = f[j2] => j1 = j2
            /\ \A j \in 1..NewJoins :
                 /\ NewJoinPos(j) = VecArray(Vertex(f[j]))
                 /\ NewJoinColors(j) = { VertexColor(f[j]) }
     /\ PassFinished =>
          \A r \in 1..Len(potentialCaps) :
            /\ CapAppended(r)
            /\ potentialCaps[r].color = VertexColor(potentialCaps[r].key)]_vars

\* direction d is that of a non-degenerate edge, as it runs or reversed,
\* with an endpoint at position pos
EdgeDirAt(d, pos) ==
  \E k \in 1..Len(edges) :
     /\ NonDegenerate(edges[k])
     /\ pos \in { VecArray(Vertex(edges[k][1])), VecArray(Vertex(edges[k][2])) }
     /\ d \in { EdgeDir(edges[k]), DirNegate(EdgeDir(edges[k])) }

(* C28: for every join in the buffers, tangent-in and tangent-out are each *)
(* the direction, possibly reversed, of an edge with a length that has an   *)
(* endpoint at the join's position.                                         *)
C28_JoinTangentsFromEdgesAtAnchor ==
  pc = "loop" \/ AfterPass =>
    \A k \in 1..NumLineVerts :
       LineKinds[k] = "join" =>
         /\ EdgeDirAt(TangentDir(TanIn(k)), LinePos(k))
         /\ EdgeDirAt(TangentDir(TanOut(k)), LinePos(k))

\* the edges form one closed loop: each edge starts at the vertex index
\* where the previous one ended, the last ends where the first started, and
\* no vertex index is visited twice
IsClosedLoop(es) ==
  /\ Len(es) >= 3
  /\ \A k \in 1..(Len(es) - 1) : es[k][2] = es[k + 1][1]
  /\ es[Len(es)][2] = es[1][1]
  /\ Cardinality({ es[k][1] : k \in 1..Len(es) }) = Len(es)

\* the loop bends at the start vertex of every edge
BendsEverywhere(es) ==
  \A k \in 1..Len(es) :
     EdgeDir(es[k]) # EdgeDir(es[IF k = 1 THEN Len(es) ELSE k - 1])

\* the join vertices at position pos
JoinVerticesAt(pos) ==
  { k \in 1..NumLineVerts :
      LineKinds[k] = "join" /\ LinePos(k) = VecArray(pos) }

(* C29: after a pass over one closed loop of n >= 3 edges that all have a  *)
(* length and bend at every vertex, the buffers hold n segments, n joins,   *)
(* one at every vertex of the loop, the closing one included, and no cap:   *)
(* 18 n stroke vertices.                                                    *)
C29_LoopAllJoins ==
  /\ AfterPass
  /\ IsClosedLoop(edges)
  /\ \A k \in 1..Len(edges) : NonDegenerate(edges[k])
  /\ BendsEverywhere(edges)
  => /\ KindCount("segment") = 6 * Len(edges)
     /\ KindCount("join") = 12 * Len(edges)
     /\ KindCount("cap") = 0
     /\ NumLineVerts = 18 * Len(edges)
     /\ \A k \in 1..Len(edges) :
          Cardinality(JoinVerticesAt(Vertex(edges[k][1]))) = 12

\* the edges of the face 1, 2, 0 around a triangle, the pass finished
C29_Witness ==
  /\ AfterPass
  /\ edges = << << 1, 2 >>, << 2, 0 >>, << 0, 1 >> >>
  /\ vertices = << PointSeq[1], PointSeq[2], PointSeq[4] >>
  /\ IsClosedLoop(edges)
  /\ BendsEverywhere(edges)
  /\ NumLineVerts = 54
  /\ KindCount("join") = 36

----------------------------------------------------------------------------
(* Claims about buildGeometry(). *)

\* the step is a call of buildGeometry()
BuildGeometryStep == callLog' # callLog /\ lastCall'.op = "buildGeometry"

(* C30: when buildGeometry() finishes, by returning or by throwing, the    *)
(* renderer has no builder in flight.                                       *)
C30_NoBuilderLeftBehind ==
  [][BuildGeometryStep => geometryBuilder' = <<>>]_vars

====
